---- MODULE Spec2Model ----
(***************************************************************************)
(* Model of the ingestion-and-fan-out engine of re-dollars-backend:        *)
(*   - src/src/websocket/socketManager.ts (connection registry, reliable   *)
(*     delivery with ack / retry / backpressure, presence), lines 1-618;   *)
(*   - src/src/services/scraperService.ts (polling cursor, safety sweep).  *)
(* Times of the delivery engine are in milliseconds (Date.now()), times of *)
(* the scraper are in epoch seconds, as in the source.                     *)
(***************************************************************************)
EXTENDS Integers, Sequences, FiniteSets, TLC

(***************************************************************************)
(* Bounds of the model.                                                    *)
(***************************************************************************)
MaxConns == 1       \* connections accepted over the life of the process
MaxMsgId == 2       \* delivery ids allocated (cap on nextMessageId)
MaxClock == 100000  \* Date.now() stops advancing here (ms since start)
TimeStep == 30000   \* amount by which Date.now() advances between handlers
MaxExtId == 2       \* external (bangumi) ids that upstream serves: 1..MaxExtId
StartNow == 3605    \* epoch second at which the process starts
MaxElapsed == 1     \* seconds of the scraper's life that are explored
MaxTick == 5        \* scrapeMessages runs explored (cap on state.tick)
MaxBatch == 4       \* length of the arrays handed to .sort(byTsIdAsc) on their own
MaxRunning == 2     \* calls of run in flight at once (cap on running)
MaxFailures == 1    \* failed cycles explored
MaxPresConns == 2   \* connections accepted where presence and addressing are explored
MaxUsers == 2       \* user ids that clients present: 1..MaxUsers
MaxFrames == 4      \* control frames handled where presence is explored
MaxProbes == 3      \* pings sent to one connection (cap on the ticks of pingTimer)
LongStep == 1000000 \* amount by which Date.now() advances between presence handlers
MaxLongClock == 2000000 \* Date.now() stops advancing here where presence is explored

(***************************************************************************)
(* Program constants (socketManager.ts:9-13).                              *)
(***************************************************************************)
ACK_TIMEOUT_MS_BASE == 3000
MAX_RETRIES == 10
BUFFER_HIGH_WATERMARK == 4 * 1024 * 1024
BUFFER_LOW_WATERMARK == 1 * 1024 * 1024
MAX_RETRY_WINDOW_MS == 60000
OFFLINE_GRACE_PERIOD_MS == 30 * 60 * 1000

Conns == 1..MaxConns

\* the WebSocket objects that the model has room for
NSlots == IF MaxConns >= MaxPresConns THEN MaxConns ELSE MaxPresConns

Slots == 1..NSlots

\* user ids; ws.meta.uid = null is written 0
UserIds == 1..MaxUsers
AckIds == 1..MaxMsgId

\* Values of ws.bufferedAmount that the watermark tests tell apart:
\* below the low watermark, exactly at it, exactly at the high one, above it.
Levels == {0, BUFFER_LOW_WATERMARK, BUFFER_HIGH_WATERMARK, BUFFER_HIGH_WATERMARK + 1}

VARIABLES
    nowMs,          \* Date.now() of the server process, relative to its start
    nextConnId,     \* socketManager.ts:88
    nextMessageId,  \* socketManager.ts:89
    allClients,     \* socketManager.ts:85, connection ids in the registry
    ws,             \* the WebSocket objects (transport state + ws.meta), by id
    meta,           \* ws.meta.uid, ws.meta.open and ws.meta.subs, by id
    users,          \* socketManager.ts:84, the Map uid -> WSUser
    lastOnlineCount,\* socketManager.ts:363
    pendingMessages,\* socketManager.ts:73, the Map uid -> PendingMessage[]
    frames,         \* history: the number of control frames handled, other
                    \* than ack frames
    recalcs,        \* history: the runs of recalcAndNotifyPresence made by
                    \* the last handler
    lastSend        \* history: the call of broadcast or sendToUser that the
                    \* last step made, with the type of its payload, or the
                    \* mark of a control frame that the last step dropped

presVars == <<meta, users, lastOnlineCount, pendingMessages, frames, recalcs, lastSend>>

wsVars == <<nowMs, nextConnId, nextMessageId, allClients, ws, presVars>>

VARIABLES
    lastTs,         \* scraperService.ts:40, state.lastTs (epoch seconds)
    lastIdAtTs,     \* scraperService.ts:41, state.lastIdAtTs
    tick,           \* scraperService.ts:42, state.tick
    pc,             \* position of the scrape loop: "idle" before the normal
                    \* cycle of scrapeMessages, "sweep" before its sweep cycle,
                    \* "timer" between two runs
    running,        \* the calls of run (scraperService.ts:463) whose
                    \* scrapeMessages has not resolved
    timers,         \* the armed timers of run (scraperService.ts:466)
    nowTs,          \* Math.floor(Date.now() / 1000)
    store,          \* the committed rows of table messages, in insertion order
    feed,           \* the messages upstream holds
    fanned,         \* history: for each external id, the number of
                    \* new_messages broadcasts that carried it
    failures,       \* history: the number of cycles that failed so far
    cyc,            \* history: what the last cycle did
    sorting,        \* an array of normalized messages before and after
                    \* .sort(byTsIdAsc), scraperService.ts:287-294
    completed,      \* history: the normal cycles that have returned since
                    \* the last safety sweep (since the start before the first)
    fetching        \* the call of fetchWithRetry in flight
                    \* (scraperService.ts:51-62): its retries argument, and as
                    \* history the outcome of its last attempt and the
                    \* timeout of every attempt

scrVars ==
    <<lastTs, lastIdAtTs, tick, pc, running, timers, nowTs, store, feed, fanned,
      failures, cyc, sorting, fetching, completed>>

vars == <<wsVars, scrVars>>

(***************************************************************************)
(* Helpers on sequences and functions.                                     *)
(***************************************************************************)
Range(s) == {s[i] : i \in DOMAIN s}

Min(a, b) == IF a <= b THEN a ELSE b

RECURSIVE Pow(_, _)
Pow(b, n) == IF n = 0 THEN 1 ELSE b * Pow(b, n - 1)

RECURSIVE SortedSeq(_)
\* the elements of a finite set of integers in increasing order
SortedSeq(S) ==
    IF S = {} THEN <<>>
    ELSE LET m == CHOOSE x \in S : \A y \in S : x <= y
         IN <<m>> \o SortedSeq(S \ {m})

RECURSIVE Tup(_, _)
\* the function f on 1..n as a sequence
Tup(f, n) == IF n = 0 THEN <<>> ELSE Append(Tup(f, n - 1), f[n])

(***************************************************************************)
(* A JavaScript Map<number, UnackedMessage>: the entries in insertion      *)
(* order, each carrying its key in the field ackId.                        *)
(***************************************************************************)
EmptyMap == <<>>

MapKeys(m) == {m[i].ackId : i \in DOMAIN m}

MapHas(m, k) == k \in MapKeys(m)

MapIdx(m, k) == CHOOSE i \in DOMAIN m : m[i].ackId = k

MapGet(m, k) == m[MapIdx(m, k)]

MapDelete(m, k) == SelectSeq(m, LAMBDA e : e.ackId # k)

\* Map.set: a present key keeps its place, a new key goes last
MapSet(m, k, v) ==
    IF MapHas(m, k)
    THEN LET i == MapIdx(m, k)
         IN SubSeq(m, 1, i - 1) \o <<v>> \o SubSeq(m, i + 1, Len(m))
    ELSE Append(m, v)

\* entry.wasSent = true on the entry of key k
MarkSent(m, k) == MapSet(m, k, [MapGet(m, k) EXCEPT !.wasSent = TRUE])

\* the keys of a Map in iteration order
MapKeySeq(m) == [i \in DOMAIN m |-> m[i].ackId]

(***************************************************************************)
(* A WebSocket object.  Program fields: readyState, bufferedAmount,        *)
(* backpressure, pendingQueue (ack ids, the payload string of an item is   *)
(* the payload of that ack id), unackedMessages (a Map, see above).        *)
(* UnackedMessage.lastSentAt is written but never read by the program and  *)
(* is left out.  Record fields are written in alphabetical order           *)
(* throughout.  History fields, not read by the program:                   *)
(*   sent    transmissions made by the last handler, in order; id 0 is a   *)
(*           best-effort payload; bp is the flag at the time of ws.send    *)
(*   checks  the backpressure checks made by the last handler              *)
(*   drains  the runs of drainPendingQueue made by the last handler: the   *)
(*           queue before and after, the ids transmitted (tx), the flag at *)
(*           the end (bp), whether a send threw (failed), and the number   *)
(*           of backpressure checks made during the run (nchk)             *)
(*   acked   ids removed by an `ack` frame while they had an entry         *)
(*   expired ids removed by the retry tick                                 *)
(*   firstTx ids in the order of their first transmission                  *)
(***************************************************************************)
NewSocket ==
    [acked |-> {}, backpressure |-> FALSE, bufferedAmount |-> 0, checks |-> <<>>,
     drains |-> <<>>, expired |-> {}, firstTx |-> <<>>, pendingQueue |-> <<>>,
     readyState |-> "NONE", sent |-> <<>>, unackedMessages |-> EmptyMap]

ClearLog(w) == [w EXCEPT !.sent = <<>>, !.checks = <<>>, !.drains = <<>>]

\* ws.bufferedAmount belongs to the transport, the program only reads it: a
\* handler that touches connection c finds there a value b that the
\* transport chose since the last handler, and the value grows with the
\* frames the handler sends.  Between handlers the field holds 0.
Observe(w, b) == [w EXCEPT !.bufferedAmount = b]

Settle(w) == [w EXCEPT !.bufferedAmount = 0]

\* ws.send(data) on an open transport: it either throws, or hands the frame
\* to the transport, after which bufferedAmount is at or above its previous
\* value.  The checks that follow a send inside one handler only test
\* "> BUFFER_HIGH_WATERMARK" (the flag is clear when a frame is sent), so the
\* two outcomes kept are "unchanged" and "above the high watermark".
\* k = 0 stands for a payload without ackId.
wsSend(w, k) ==
    {[ok |-> FALSE, w |-> w]} \cup
    {[ok |-> TRUE,
      w |-> [w EXCEPT !.bufferedAmount = b,
                      !.sent = Append(@, [bp |-> w.backpressure, id |-> k,
                                          rs |-> w.readyState]),
                      !.firstTx = IF k = 0 \/ k \in Range(@) THEN @
                                  ELSE Append(@, k)]] :
        b \in {w.bufferedAmount, BUFFER_HIGH_WATERMARK + 1}}

InQueue(w, k) == \E i \in DOMAIN w.pendingQueue : w.pendingQueue[i] = k

RECURSIVE checkBackpressure(_), drainLoop(_)

\* Variant of drainLoop that transmits a queued item without looking up its
\* entry in the unacked map.
drainLoopNoEntryCheck(w) ==
    IF ~(Len(w.pendingQueue) > 0 /\ ~w.backpressure) THEN {w}
    ELSE LET k == Head(w.pendingQueue)
             w1 == [w EXCEPT !.pendingQueue = Tail(@)]
         IN UNION {
              IF r.ok
              THEN UNION { drainLoop(w3) :
                     w3 \in checkBackpressure(
                              IF MapHas(r.w.unackedMessages, k)
                              THEN [r.w EXCEPT !.unackedMessages = MarkSent(@, k)]
                              ELSE r.w) }
              ELSE {[r.w EXCEPT !.pendingQueue = <<k>> \o @,
                                !.drains[Len(r.w.drains)].failed = TRUE]}
              : r \in wsSend(w1, k) }

\* Variant of drainLoop that takes the newest item of the queue first.
drainLoopLifo(w) ==
    IF ~(Len(w.pendingQueue) > 0 /\ ~w.backpressure) THEN {w}
    ELSE LET n == Len(w.pendingQueue)
             k == w.pendingQueue[n]
             w1 == [w EXCEPT !.pendingQueue = SubSeq(@, 1, n - 1)]
         IN IF MapHas(w1.unackedMessages, k) /\ ~MapGet(w1.unackedMessages, k).wasSent
            THEN UNION {
                   IF r.ok
                   THEN UNION { drainLoop(w3) :
                          w3 \in checkBackpressure(
                                   [r.w EXCEPT !.unackedMessages = MarkSent(@, k)]) }
                   ELSE {[r.w EXCEPT !.pendingQueue = Append(@, k),
                                     !.drains[Len(r.w.drains)].failed = TRUE]}
                   : r \in wsSend(w1, k) }
            ELSE UNION { drainLoop(w3) : w3 \in checkBackpressure(w1) }

\* socketManager.ts:122-144; the result is the set of possible outcomes.
drainLoop(w) ==
    IF ~(Len(w.pendingQueue) > 0 /\ ~w.backpressure) THEN {w}
    ELSE LET k == Head(w.pendingQueue)
             w1 == [w EXCEPT !.pendingQueue = Tail(@)]
         IN IF MapHas(w1.unackedMessages, k) /\ ~MapGet(w1.unackedMessages, k).wasSent
            THEN UNION {
                   IF r.ok
                   THEN UNION { drainLoop(w3) :
                          w3 \in checkBackpressure(
                                   [r.w EXCEPT !.unackedMessages = MarkSent(@, k)]) }
                   ELSE {[r.w EXCEPT !.pendingQueue = <<k>> \o @,
                                     !.drains[Len(r.w.drains)].failed = TRUE]}
                   : r \in wsSend(w1, k) }
            ELSE UNION { drainLoop(w3) : w3 \in checkBackpressure(w1) }

drainPendingQueue(w) ==
    IF w.readyState # "OPEN" THEN {w}
    ELSE LET from == Len(w.sent)
             chk0 == Len(w.checks)
             w0 == [w EXCEPT !.drains =
                       Append(@, [after |-> <<>>, before |-> w.pendingQueue,
                                  bp |-> FALSE, failed |-> FALSE, nchk |-> 0,
                                  tx |-> <<>>])]
         IN { [x EXCEPT !.drains[Len(x.drains)].after = x.pendingQueue,
                        !.drains[Len(x.drains)].bp = x.backpressure,
                        !.drains[Len(x.drains)].nchk = Len(x.checks) - chk0,
                        !.drains[Len(x.drains)].tx =
                            [i \in 1..(Len(x.sent) - from) |-> x.sent[from + i].id]] :
              x \in drainLoop(w0) }

\* Variant of checkBackpressure with one threshold: the flag follows
\* "bufferedAmount > BUFFER_HIGH_WATERMARK" in both directions.
checkBackpressureOneThreshold(w) ==
    LET buffered == w.bufferedAmount
        note(x, b) == [x EXCEPT !.backpressure = b,
                                !.checks = Append(@, [now |-> b, obs |-> buffered,
                                                      was |-> w.backpressure])]
    IN IF buffered > BUFFER_HIGH_WATERMARK
       THEN { note(w, TRUE) }
       ELSE IF w.backpressure THEN drainPendingQueue(note(w, FALSE))
            ELSE { note(w, FALSE) }

\* socketManager.ts:96-117; the returned boolean is the backpressure field of
\* each outcome.
checkBackpressure(w) ==
    LET buffered == w.bufferedAmount
        note(x, b) == [x EXCEPT !.backpressure = b,
                                !.checks = Append(@, [now |-> b, obs |-> buffered,
                                                      was |-> w.backpressure])]
    IN IF w.backpressure
       THEN IF buffered < BUFFER_LOW_WATERMARK
            THEN drainPendingQueue(note(w, FALSE))
            ELSE { note(w, TRUE) }
       ELSE IF buffered > BUFFER_HIGH_WATERMARK
            THEN { note(w, TRUE) }
            ELSE { note(w, FALSE) }

\* Variant of safeSend that queues the payload of a backpressured
\* connection instead of dropping it.
safeSendQueueing(w) ==
    IF w.readyState = "OPEN"
    THEN UNION { IF w2.backpressure
                 THEN {[w2 EXCEPT !.pendingQueue = Append(@, 0)]}
                 ELSE { r.w : r \in wsSend(w2, 0) } :
                 w2 \in checkBackpressure(w) }
    ELSE {w}

\* socketManager.ts:146-160
safeSend(w) ==
    IF w.readyState = "OPEN"
    THEN UNION { IF w2.backpressure THEN {w2}
                 ELSE { r.w : r \in wsSend(w2, 0) } :
                 w2 \in checkBackpressure(w) }
    ELSE {w}

\* socketManager.ts:162-208, called with ackId = nextMessageId (the caller
\* increments the counter when the transport is open) and t = now().
sendReliable(w, ackId, t) ==
    IF w.readyState # "OPEN" THEN {w}
    ELSE LET entry == [ackId |-> ackId, firstSentAt |-> t,
                       nextRetry |-> t + ACK_TIMEOUT_MS_BASE, retries |-> 0,
                       wasSent |-> FALSE]
             w1 == [w EXCEPT !.unackedMessages = MapSet(@, ackId, entry)]
         IN UNION { IF w2.backpressure
                    THEN {[w2 EXCEPT !.pendingQueue = Append(@, ackId)]}
                    ELSE { IF r.ok
                           THEN [r.w EXCEPT !.unackedMessages = MarkSent(@, ackId)]
                           ELSE [r.w EXCEPT !.pendingQueue = Append(@, ackId)] :
                           r \in wsSend(w2, ackId) } :
                    w2 \in checkBackpressure(w1) }

\* socketManager.ts:326: Math.min(ACK_TIMEOUT_MS_BASE * Math.pow(1.5, retries), 8000);
\* 3000 * 1.5^r is an integer for r <= 2 and above the cap for r >= 3.
backoff(retries) ==
    Min((ACK_TIMEOUT_MS_BASE * Pow(3, retries)) \div Pow(2, retries), 8000)

RECURSIVE retryEntries(_, _, _)
\* Variant of retryEntries without the test on MAX_RETRY_WINDOW_MS: an entry
\* is dropped only when its retry counter is exhausted.
retryEntriesNoWindow(w, keys, currentTime) ==
    IF keys = <<>> THEN {w}
    ELSE LET ackId == Head(keys)
             more(x) == retryEntries(x, Tail(keys), currentTime)
         IN IF ~MapHas(w.unackedMessages, ackId) THEN more(w)
            ELSE LET entry == MapGet(w.unackedMessages, ackId)
                 IN IF ~entry.wasSent /\ InQueue(w, ackId) THEN more(w)
                    ELSE IF currentTime >= entry.nextRetry
                    THEN IF entry.retries >= MAX_RETRIES
                         THEN more([w EXCEPT !.unackedMessages = MapDelete(@, ackId),
                                             !.expired = @ \cup {ackId}])
                         ELSE LET w1 == [w EXCEPT !.unackedMessages =
                                    MapSet(@, ackId,
                                      [entry EXCEPT !.retries = entry.retries + 1,
                                                    !.nextRetry = currentTime +
                                                        backoff(entry.retries + 1)])]
                              IN UNION {
                                   IF ~w2.backpressure
                                   THEN UNION { more(IF r.ok
                                          THEN [r.w EXCEPT
                                                  !.unackedMessages = MarkSent(@, ackId)]
                                          ELSE r.w) : r \in wsSend(w2, ackId) }
                                   ELSE more(IF ~InQueue(w2, ackId)
                                             THEN [w2 EXCEPT !.pendingQueue =
                                                                Append(@, ackId)]
                                             ELSE w2) :
                                   w2 \in checkBackpressure(w1) }
                    ELSE more(w)

\* Variant of retryEntries that resends a due entry without counting the
\* attempt.
retryEntriesNoCount(w, keys, currentTime) ==
    IF keys = <<>> THEN {w}
    ELSE LET ackId == Head(keys)
             more(x) == retryEntries(x, Tail(keys), currentTime)
         IN IF ~MapHas(w.unackedMessages, ackId) THEN more(w)
            ELSE LET entry == MapGet(w.unackedMessages, ackId)
                 IN IF ~entry.wasSent /\ InQueue(w, ackId) THEN more(w)
                    ELSE IF currentTime - entry.firstSentAt > MAX_RETRY_WINDOW_MS
                    THEN more([w EXCEPT !.unackedMessages = MapDelete(@, ackId),
                                        !.expired = @ \cup {ackId}])
                    ELSE IF currentTime >= entry.nextRetry
                    THEN IF entry.retries >= MAX_RETRIES
                         THEN more([w EXCEPT !.unackedMessages = MapDelete(@, ackId),
                                             !.expired = @ \cup {ackId}])
                         ELSE LET w1 == [w EXCEPT !.unackedMessages =
                                    MapSet(@, ackId,
                                      [entry EXCEPT !.retries = entry.retries,
                                                    !.nextRetry = currentTime +
                                                        backoff(entry.retries + 1)])]
                              IN UNION {
                                   IF ~w2.backpressure
                                   THEN UNION { more(IF r.ok
                                          THEN [r.w EXCEPT
                                                  !.unackedMessages = MarkSent(@, ackId)]
                                          ELSE r.w) : r \in wsSend(w2, ackId) }
                                   ELSE more(IF ~InQueue(w2, ackId)
                                             THEN [w2 EXCEPT !.pendingQueue =
                                                                Append(@, ackId)]
                                             ELSE w2) :
                                   w2 \in checkBackpressure(w1) }
                    ELSE more(w)

\* socketManager.ts:305-346, the loop over the entries of one connection in
\* Map order, which is the order of insertion, that is increasing ack id.
retryEntries(w, keys, currentTime) ==
    IF keys = <<>> THEN {w}
    ELSE LET ackId == Head(keys)
             more(x) == retryEntries(x, Tail(keys), currentTime)
         IN IF ~MapHas(w.unackedMessages, ackId) THEN more(w)
            ELSE LET entry == MapGet(w.unackedMessages, ackId)
                 IN IF ~entry.wasSent /\ InQueue(w, ackId) THEN more(w)
                    ELSE IF currentTime - entry.firstSentAt > MAX_RETRY_WINDOW_MS
                    THEN more([w EXCEPT !.unackedMessages = MapDelete(@, ackId),
                                        !.expired = @ \cup {ackId}])
                    ELSE IF currentTime >= entry.nextRetry
                    THEN IF entry.retries >= MAX_RETRIES
                         THEN more([w EXCEPT !.unackedMessages = MapDelete(@, ackId),
                                             !.expired = @ \cup {ackId}])
                         ELSE LET w1 == [w EXCEPT !.unackedMessages =
                                    MapSet(@, ackId,
                                      [entry EXCEPT !.retries = entry.retries + 1,
                                                    !.nextRetry = currentTime +
                                                        backoff(entry.retries + 1)])]
                              IN UNION {
                                   IF ~w2.backpressure
                                   THEN UNION { more(IF r.ok
                                          THEN [r.w EXCEPT
                                                  !.unackedMessages = MarkSent(@, ackId)]
                                          ELSE r.w) : r \in wsSend(w2, ackId) }
                                   ELSE more(IF ~InQueue(w2, ackId)
                                             THEN [w2 EXCEPT !.pendingQueue =
                                                                Append(@, ackId)]
                                             ELSE w2) :
                                   w2 \in checkBackpressure(w1) }
                    ELSE more(w)

\* Variant of retryConn without the test of line 291: the tick works on a
\* connection whatever the state of its transport.
retryConnAnyState(w, currentTime) ==
    LET A == IF w.backpressure THEN checkBackpressure(w) ELSE {w}
        B == UNION { IF Len(a.pendingQueue) > 0 THEN drainPendingQueue(a)
                     ELSE {a} : a \in A }
    IN UNION { IF Len(b.unackedMessages) = 0 THEN {b}
               ELSE retryEntries(b, MapKeySeq(b.unackedMessages),
                                 currentTime) : b \in B }

\* Variant of retryConn without the check of lines 293-295: the flag of a
\* connection is looked at only when a payload is sent.
retryConnNoCheck(w, currentTime) ==
    IF w.readyState # "OPEN" THEN {w}
    ELSE LET B == IF Len(w.pendingQueue) > 0 THEN drainPendingQueue(w) ELSE {w}
         IN UNION { IF Len(b.unackedMessages) = 0 THEN {b}
                    ELSE retryEntries(b, MapKeySeq(b.unackedMessages),
                                      currentTime) : b \in B }

\* socketManager.ts:290-347, the body of the retry tick for one connection.
retryConn(w, currentTime) ==
    IF w.readyState # "OPEN" THEN {w}
    ELSE LET A == IF w.backpressure THEN checkBackpressure(w) ELSE {w}
             B == UNION { IF Len(a.pendingQueue) > 0 THEN drainPendingQueue(a)
                          ELSE {a} : a \in A }
         IN UNION { IF Len(b.unackedMessages) = 0 THEN {b}
                    ELSE retryEntries(b, MapKeySeq(b.unackedMessages),
                                      currentTime) : b \in B }

\* Variant of isReliable that leaves message_edit out.
isReliableFour(objType) ==
    objType \in {"new_messages", "reaction_add", "reaction_remove", "message_delete"}

\* socketManager.ts:544-549
isReliable(objType) ==
    objType \in {"new_messages", "reaction_add", "reaction_remove",
                 "message_delete", "message_edit"}

RECURSIVE broadcastLoop(_, _, _, _, _)
\* Variant of broadcastLoop that stamps every copy of a broadcast with the
\* same delivery id: the counter is not advanced between connections.
broadcastLoopSharedId(cs, sockets, next, objType, t) ==
    IF cs = <<>> THEN {[next |-> next, sockets |-> sockets]}
    ELSE LET c == Head(cs)
         IN IF sockets[c].readyState = "OPEN"
            THEN IF isReliable(objType)
                 THEN UNION { broadcastLoop(Tail(cs), [sockets EXCEPT ![c] = Settle(w2)],
                                            next, objType, t) :
                              w2 \in UNION { sendReliable(Observe(sockets[c], b), next, t) :
                                             b \in Levels } }
                 ELSE UNION { broadcastLoop(Tail(cs), [sockets EXCEPT ![c] = Settle(w2)],
                                            next, objType, t) :
                              w2 \in UNION { safeSend(Observe(sockets[c], b)) :
                                             b \in Levels } }
            ELSE broadcastLoop(Tail(cs), sockets, next, objType, t)

\* socketManager.ts:551-559, the loop over allClients in Set order (the order
\* of connection); outcomes are pairs of the sockets and the id counter.
broadcastLoop(cs, sockets, next, objType, t) ==
    IF cs = <<>> THEN {[next |-> next, sockets |-> sockets]}
    ELSE LET c == Head(cs)
         IN IF sockets[c].readyState = "OPEN"
            THEN IF isReliable(objType)
                 THEN UNION { broadcastLoop(Tail(cs), [sockets EXCEPT ![c] = Settle(w2)],
                                            next + 1, objType, t) :
                              w2 \in UNION { sendReliable(Observe(sockets[c], b), next, t) :
                                             b \in Levels } }
                 ELSE UNION { broadcastLoop(Tail(cs), [sockets EXCEPT ![c] = Settle(w2)],
                                            next, objType, t) :
                              w2 \in UNION { safeSend(Observe(sockets[c], b)) :
                                             b \in Levels } }
            ELSE broadcastLoop(Tail(cs), sockets, next, objType, t)

RECURSIVE retryLoop(_, _, _)
\* socketManager.ts:287-348, the loop over allClients of the retry tick.
retryLoop(cs, sockets, currentTime) ==
    IF cs = <<>> THEN {sockets}
    ELSE UNION { retryLoop(Tail(cs), [sockets EXCEPT ![Head(cs)] = Settle(w2)],
                           currentTime) :
                 w2 \in UNION { retryConn(Observe(sockets[Head(cs)], b), currentTime) :
                                b \in Levels } }

Cleared == Tup([c \in Slots |-> ClearLog(ws[c])], NSlots)

(***************************************************************************)
(* Presence, socketManager.ts:210-276.  ws.meta of a connection is the     *)
(* record [open, subs, uid] of the program plus the history field          *)
(* cleanups, the number of runs of cleanupConnection on it.  The Map users *)
(* is a table over the user ids: reg tells whether the key is present.     *)
(* History field of a WSUser: zeroSince, the time since which its          *)
(* connection set has been empty without interruption, -1 when it holds a  *)
(* connection.                                                             *)
(***************************************************************************)
NoSend == [path |-> "none", type |-> "none"]

\* the last handler was that of a control frame which the program dropped
Dropped == [path |-> "frame", type |-> "dropped"]

\* ws.meta and ws.isAlive after wss.on('connection'), socketManager.ts:
\* 392-401.  History fields: probes, the pings sent to the connection;
\* answered, whether a pong event came after the last ping; terminates,
\* the calls of ws.terminate().
NewMeta ==
    [answered |-> FALSE, cleanups |-> 0, isAlive |-> TRUE, isTerminated |-> FALSE,
     open |-> TRUE, probes |-> 0, subs |-> {}, terminates |-> 0, uid |-> 0]

NoUser ==
    [active |-> FALSE, connections |-> {}, lastSeen |-> 0, reg |-> FALSE,
     zeroSince |-> 0]

\* users.has(uid)
usersHas(us, uid) == uid \in UserIds /\ us[uid].reg

\* socketManager.ts:210-222
getOrCreateUser(us, uid, t) ==
    IF us[uid].reg THEN us
    ELSE [us EXCEPT ![uid] = [NoUser EXCEPT !.lastSeen = t, !.reg = TRUE,
                                            !.zeroSince = t]]

\* socketManager.ts:243-246
computeActive(u, sockets) ==
    u.reg /\ \E c \in u.connections : sockets[c].readyState = "OPEN"

\* the identities that getOnlineCount collects, socketManager.ts:225-239
onlineUserIds(us, clients, sockets, m, currentTime) ==
    {<<"uid", u>> : u \in {x \in UserIds :
         /\ us[x].reg
         /\ ~us[x].active
         /\ currentTime - us[x].lastSeen < OFFLINE_GRACE_PERIOD_MS}}
    \cup {IF m[c].uid # 0 THEN <<"uid", m[c].uid>> ELSE <<"anon", c>> :
            c \in {x \in clients : sockets[x].readyState = "OPEN"}}

\* socketManager.ts:224-241
getOnlineCount(us, clients, sockets, m, currentTime) ==
    Cardinality(onlineUserIds(us, clients, sockets, m, currentTime))

RECURSIVE safeSendEach(_, _)
\* safeSend on each connection of the sequence cs, in order
safeSendEach(cs, sockets) ==
    IF cs = <<>> THEN {sockets}
    ELSE UNION { safeSendEach(Tail(cs), [sockets EXCEPT ![Head(cs)] = w2]) :
                 w2 \in safeSend(sockets[Head(cs)]) }

\* the connections that the loop of socketManager.ts:262-266 sends to
presenceTargets(uid, clients, m) ==
    {c \in clients : m[c].open /\ uid \in m[c].subs}

\* Variant of recalcAndNotifyPresence that notifies the subscribers on
\* every run, whether or not the flag moved.
recalcAlwaysNotify(st, uid, t, clients, m) ==
    IF ~usersHas(st.users, uid) THEN {st}
    ELSE LET u == st.users[uid]
             wasActive == u.active
             isActive == computeActive(u, st.sockets)
             us1 == [st.users EXCEPT ![uid].active = isActive,
                                     ![uid].lastSeen = IF isActive THEN t ELSE @]
             to == presenceTargets(uid, clients, m)
         IN { [log |-> Append(st.log, [now |-> isActive, to |-> to, uid |-> uid,
                                       was |-> wasActive]),
               sockets |-> s2, users |-> us1] :
              s2 \in safeSendEach(SortedSeq(to), st.sockets) }

\* socketManager.ts:248-267 on the state st = [log, sockets, users] of a
\* handler; clients and m are allClients and the ws.meta at the call.  Each
\* run is appended to the log with the connections safeSend was called on.
recalcAndNotifyPresence(st, uid, t, clients, m) ==
    IF ~usersHas(st.users, uid) THEN {st}
    ELSE LET u == st.users[uid]
             wasActive == u.active
             isActive == computeActive(u, st.sockets)
             us1 == [st.users EXCEPT ![uid].active = isActive,
                                     ![uid].lastSeen = IF isActive THEN t ELSE @]
             to == IF wasActive = isActive THEN {}
                   ELSE presenceTargets(uid, clients, m)
         IN { [log |-> Append(st.log, [now |-> isActive, to |-> to, uid |-> uid,
                                       was |-> wasActive]),
               sockets |-> s2, users |-> us1] :
              s2 \in safeSendEach(SortedSeq(to), st.sockets) }

\* The handlers of the presence state never read a buffered amount to
\* decide what they do to users or ws.meta: they are explored with
\* transports that hold no backlog when the handler starts.
IdleLevels == {0}

\* the sockets as a handler finds them: the transport of each connection of
\* the registry holds a buffered amount b[c]
Observed(b) ==
    Tup([c \in Slots |-> IF c \in DOMAIN b THEN Observe(ClearLog(ws[c]), b[c])
                         ELSE ClearLog(ws[c])], NSlots)

\* the sockets as a presence handler leaves them; what these handlers send
\* is best-effort and is kept in recalcs, not in the logs of the sockets
Quiet(sockets) == Tup([c \in Slots |-> ClearLog(Settle(sockets[c]))], NSlots)

PayloadTypes == {"new_messages", "typing_start"}

(***************************************************************************)
(* Actions of the delivery engine.                                         *)
(***************************************************************************)
\* wss.on('connection'), socketManager.ts:391-402, while fewer than cap
\* connections have been accepted
Register(cap) ==
    /\ nextConnId <= cap
    /\ ws' = [Cleared EXCEPT ![nextConnId] = [NewSocket EXCEPT !.readyState = "OPEN"]]
    /\ meta' = [meta EXCEPT ![nextConnId] = NewMeta]
    /\ allClients' = allClients \cup {nextConnId}
    /\ nextConnId' = nextConnId + 1
    /\ recalcs' = <<>>
    /\ lastSend' = NoSend
    /\ UNCHANGED <<nowMs, nextMessageId, users, lastOnlineCount, pendingMessages, frames>>
    /\ UNCHANGED scrVars

Connect == Register(MaxConns)

\* the transport of a connection stops being open (peer closed, network
\* error, terminate()); its close event is delivered later
TransportClose(c) ==
    /\ c \in allClients
    /\ ws[c].readyState = "OPEN"
    /\ ws' = [Cleared EXCEPT ![c].readyState = "CLOSED"]
    /\ recalcs' = <<>>
    /\ lastSend' = NoSend
    /\ UNCHANGED <<nowMs, nextConnId, nextMessageId, allClients>>
    /\ UNCHANGED <<meta, users, lastOnlineCount, pendingMessages, frames>>
    /\ UNCHANGED scrVars

\* cleanupConnection, socketManager.ts:511-523, run by the close event and
\* by the error event of a connection whose transport is no longer open
\* (socketManager.ts:525-529), hence at most twice: the unacked map and the
\* pending queue are emptied, the connection leaves the connection set of
\* the user that ws.meta.uid names, whose presence is recomputed, and the
\* registry; the history of a destroyed connection is dropped with it
CleanupConnection(c) ==
    /\ ws[c].readyState = "CLOSED"
    /\ meta[c].cleanups < 2
    /\ LET uid == meta[c].uid
           w0 == [NewSocket EXCEPT !.readyState = "CLOSED",
                                   !.backpressure = ws[c].backpressure]
       IN IF usersHas(users, uid)
          THEN \E b \in [presenceTargets(uid, allClients, meta) \ {c} -> IdleLevels] :
                 LET us1 == [users EXCEPT
                               ![uid].connections = @ \ {c},
                               ![uid].zeroSince =
                                   IF users[uid].connections = {c} THEN nowMs ELSE @]
                     st0 == [log |-> <<>>,
                             sockets |-> [Observed(b) EXCEPT ![c] = w0],
                             users |-> us1]
                 IN \E st \in recalcAndNotifyPresence(st0, uid, nowMs,
                                                      allClients, meta) :
                      /\ ws' = Quiet(st.sockets)
                      /\ users' = st.users
                      /\ recalcs' = st.log
                      /\ lastSend' = NoSend
          ELSE /\ ws' = [Cleared EXCEPT ![c] = w0]
               /\ recalcs' = <<>>
               /\ lastSend' = NoSend
               /\ UNCHANGED users
    /\ meta' = [meta EXCEPT ![c].cleanups = @ + 1]
    /\ allClients' = allClients \ {c}
    /\ UNCHANGED <<nowMs, nextConnId, nextMessageId, lastOnlineCount, pendingMessages, frames>>
    /\ UNCHANGED scrVars

\* Variant of the ack handler with one unacked map for all connections:
\* the id is deleted wherever it is held.
AckAnywhere(c, ackId) ==
    /\ c \in allClients
    /\ ws[c].readyState = "OPEN"
    /\ ws' = Tup([d \in Slots |->
                   [ClearLog(ws[d]) EXCEPT
                      !.unackedMessages = IF ackId # 0 THEN MapDelete(@, ackId) ELSE @,
                      !.acked = IF MapHas(ws[d].unackedMessages, ackId)
                                THEN @ \cup {ackId} ELSE @]], NSlots)
    /\ recalcs' = <<>>
    /\ lastSend' = IF ackId = 0 THEN Dropped ELSE NoSend
    /\ UNCHANGED <<nowMs, nextConnId, nextMessageId, allClients>>
    /\ UNCHANGED <<meta, users, lastOnlineCount, pendingMessages, frames>>
    /\ UNCHANGED scrVars

\* ws.on('message') case 'ack', socketManager.ts:424-428
Ack(c, ackId) ==
    /\ c \in allClients
    /\ ws[c].readyState = "OPEN"
    /\ ws' = [Cleared EXCEPT
                ![c].unackedMessages = IF ackId # 0 THEN MapDelete(@, ackId) ELSE @,
                ![c].acked = IF MapHas(ws[c].unackedMessages, ackId)
                             THEN @ \cup {ackId} ELSE @]
    /\ recalcs' = <<>>
    /\ lastSend' = IF ackId = 0 THEN Dropped ELSE NoSend
    /\ UNCHANGED <<nowMs, nextConnId, nextMessageId, allClients>>
    /\ UNCHANGED <<meta, users, lastOnlineCount, pendingMessages, frames>>
    /\ UNCHANGED scrVars

\* broadcast, socketManager.ts:532-560
Broadcast(objType) ==
    /\ \E r \in broadcastLoop(SortedSeq(allClients), Cleared, nextMessageId,
                              objType, nowMs) :
          /\ r.next - 1 <= MaxMsgId
          /\ ws' = r.sockets
          /\ nextMessageId' = r.next
    /\ recalcs' = <<>>
    /\ lastSend' = [path |-> "broadcast", type |-> objType]
    /\ UNCHANGED <<nowMs, nextConnId, allClients>>
    /\ UNCHANGED <<meta, users, lastOnlineCount, pendingMessages, frames>>
    /\ UNCHANGED scrVars

\* retryTicker, socketManager.ts:287-348
RetryTicker ==
    /\ ws' \in retryLoop(SortedSeq(allClients), Cleared, nowMs)
    /\ recalcs' = <<>>
    /\ lastSend' = NoSend
    /\ UNCHANGED <<nowMs, nextConnId, nextMessageId, allClients>>
    /\ UNCHANGED <<meta, users, lastOnlineCount, pendingMessages, frames>>
    /\ UNCHANGED scrVars

\* time passes between two handlers
Tick ==
    /\ nowMs + TimeStep <= MaxClock
    /\ nowMs' = nowMs + TimeStep
    /\ ws' = Cleared
    /\ recalcs' = <<>>
    /\ lastSend' = NoSend
    /\ UNCHANGED <<nextConnId, nextMessageId, allClients>>
    /\ UNCHANGED <<meta, users, lastOnlineCount, pendingMessages, frames>>
    /\ UNCHANGED scrVars

\* the ids that the last handler transmitted on connection c
TxIds(c) == {ws[c].sent[i].id : i \in DOMAIN ws[c].sent}

\* The retry tick has found the transport of connection c calm: every
\* backpressure check read a bufferedAmount below the low watermark, no
\* ws.send threw in a drain, and every entry whose retry count moved was
\* transmitted.
CalmOutcome(c) ==
    LET w == ws'[c]
    IN /\ \A i \in DOMAIN w.checks : w.checks[i].obs < BUFFER_LOW_WATERMARK
       /\ \A i \in DOMAIN w.drains : ~w.drains[i].failed
       /\ \A k \in MapKeys(w.unackedMessages) :
             (/\ MapHas(ws[c].unackedMessages, k)
              /\ MapGet(w.unackedMessages, k).retries
                   > MapGet(ws[c].unackedMessages, k).retries)
                => \E i \in DOMAIN w.sent : w.sent[i].id = k

\* a retry tick (socketManager.ts:287-348) during which the transports are
\* calm
CalmTick ==
    /\ RetryTicker
    /\ \A c \in allClients : CalmOutcome(c)

\* broadcast is called before the clock has moved
BroadcastAtStart(t) ==
    /\ nowMs = 0
    /\ Broadcast(t)

\* the delivery engine when nothing is sent after the start
DrainNext ==
    \/ Connect
    \/ \E c \in Conns : TransportClose(c)
    \/ \E c \in Conns : CleanupConnection(c)
    \/ \E c \in Conns, k \in AckIds : Ack(c, k)
    \/ \E t \in PayloadTypes : BroadcastAtStart(t)
    \/ RetryTicker
    \/ Tick

WsNext ==
    \/ Connect
    \/ \E c \in Conns : TransportClose(c)
    \/ \E c \in Conns : CleanupConnection(c)
    \/ \E c \in Conns, k \in AckIds : Ack(c, k)
    \/ \E t \in PayloadTypes : Broadcast(t)
    \/ RetryTicker
    \/ Tick

RECURSIVE sendToUserLoop(_, _, _, _, _)
\* socketManager.ts:565-570, the loop over allClients; the payload is sent
\* with sendReliable whatever its type
sendToUserLoop(cs, sockets, next, targetUid, t) ==
    IF cs = <<>> THEN {[next |-> next, sockets |-> sockets]}
    ELSE LET c == Head(cs)
         IN IF sockets[c].readyState = "OPEN" /\ meta[c].uid = targetUid
            THEN UNION { sendToUserLoop(Tail(cs), [sockets EXCEPT ![c] = Settle(w2)],
                                        next + 1, targetUid, t) :
                         w2 \in UNION { sendReliable(Observe(sockets[c], b), next, t) :
                                        b \in Levels } }
            ELSE sendToUserLoop(Tail(cs), sockets, next, targetUid, t)

\* sendToUser, socketManager.ts:562-572; objType is message.type
SendToUser(uid, objType) ==
    /\ \E r \in sendToUserLoop(SortedSeq(allClients), Cleared, nextMessageId,
                               uid, nowMs) :
          /\ r.next - 1 <= MaxMsgId
          /\ ws' = r.sockets
          /\ nextMessageId' = r.next
    /\ recalcs' = <<>>
    /\ lastSend' = [path |-> "sendToUser", type |-> objType]
    /\ UNCHANGED <<nowMs, nextConnId, allClients>>
    /\ UNCHANGED <<meta, users, lastOnlineCount, pendingMessages, frames>>
    /\ UNCHANGED scrVars

\* two of the types that callers pass to broadcast (scraperService.ts:442
\* and the message routes)
BroadcastTypes == {"new_messages", "message_edit"}

\* a type outside the reliable ones
PlainTypes == {"typing_start"}

\* no delivery id has been allocated yet
NoneAllocated == nextMessageId = 1

\* the type that callers pass to sendToUser (scraperService.ts:397,
\* authController.ts:255)
UserTypes == {"notification"}

(***************************************************************************)
(* The control frames, ws.on('message'), socketManager.ts:413-509, and the *)
(* presence sweep.  A field that the frame does not carry is written 0     *)
(* (an absent uid, user.id, ackId, tempId or content) or <<>> (uids that   *)
(* is not an array).  A frame is handled while the transport is open.      *)
(***************************************************************************)
PENDING_MESSAGE_TTL_MS == 30000

\* a handler that reads and writes nothing of the presence state
NoPresence ==
    /\ recalcs' = <<>>
    /\ lastSend' = NoSend
    /\ UNCHANGED <<meta, users, lastOnlineCount, pendingMessages>>

\* connection c receives a control frame
FrameOn(c) ==
    /\ c \in allClients
    /\ ws[c].readyState = "OPEN"
    /\ frames < MaxFrames
    /\ frames' = frames + 1

\* a frame that is not JSON (socketManager.ts:415), that is not an object
\* (:417), or whose type is none of the cases of the switch (:419)
DroppedFrame(c) ==
    /\ FrameOn(c)
    /\ ws' = Cleared
    /\ recalcs' = <<>>
    /\ lastSend' = Dropped
    /\ UNCHANGED <<meta, users, lastOnlineCount, pendingMessages>>
    /\ UNCHANGED <<nowMs, nextConnId, nextMessageId, allClients>>
    /\ UNCHANGED scrVars

\* Variant of identifyFrame without the test on data.uid: String(undefined)
\* is written -1.
identifyFrameNoCheck(m, c, uid) ==
    [m EXCEPT ![c].uid = IF uid = 0 THEN -1 ELSE uid]

\* socketManager.ts:421
identifyFrame(m, c, uid) == IF uid # 0 THEN [m EXCEPT ![c].uid = uid] ELSE m

\* case 'identify', socketManager.ts:420-423
Identify(c, uid) ==
    /\ FrameOn(c)
    /\ meta' = identifyFrame(meta, c, uid)
    /\ ws' = Cleared
    /\ recalcs' = <<>>
    /\ lastSend' = IF uid = 0 THEN Dropped ELSE NoSend
    /\ UNCHANGED <<users, lastOnlineCount, pendingMessages>>
    /\ UNCHANGED <<nowMs, nextConnId, nextMessageId, allClients>>
    /\ UNCHANGED scrVars

\* case 'join', socketManager.ts:429-443; id is data.user.id
Join(c, id) ==
    /\ FrameOn(c)
    /\ IF id = 0
       THEN /\ ws' = Cleared
            /\ recalcs' = <<>>
            /\ lastSend' = Dropped
            /\ UNCHANGED <<meta, users>>
       ELSE \E b \in [{c} \cup presenceTargets(id, allClients, meta) -> IdleLevels] :
              LET m1 == [meta EXCEPT ![c].uid = id]
                  us1 == getOrCreateUser(users, id, nowMs)
                  us2 == [us1 EXCEPT ![id].lastSeen = nowMs,
                                     ![id].connections = @ \cup {c},
                                     ![id].zeroSince = -1]
                  st0 == [log |-> <<>>, sockets |-> Observed(b), users |-> us2]
              IN \E st \in recalcAndNotifyPresence(st0, id, nowMs, allClients, m1) :
                   \E w2 \in safeSend(st.sockets[c]) :
                     /\ ws' = Quiet([st.sockets EXCEPT ![c] = w2])
                     /\ users' = st.users
                     /\ meta' = m1
                     /\ recalcs' = st.log
                     /\ lastSend' = NoSend
    /\ UNCHANGED <<lastOnlineCount, pendingMessages>>
    /\ UNCHANGED <<nowMs, nextConnId, nextMessageId, allClients>>
    /\ UNCHANGED scrVars

\* case 'presence', socketManager.ts:444-450; open is !!data.open
Presence(c, open) ==
    /\ FrameOn(c)
    /\ \E b \in [{c} \cup presenceTargets(meta[c].uid, allClients, meta) -> IdleLevels] :
         LET m1 == [meta EXCEPT ![c].open = open]
             st0 == [log |-> <<>>, sockets |-> Observed(b), users |-> users]
             R == IF meta[c].uid # 0
                  THEN recalcAndNotifyPresence(st0, meta[c].uid, nowMs,
                                               allClients, m1)
                  ELSE {st0}
         IN \E st \in R : \E w2 \in safeSend(st.sockets[c]) :
              /\ ws' = Quiet([st.sockets EXCEPT ![c] = w2])
              /\ users' = st.users
              /\ meta' = m1
              /\ recalcs' = st.log
              /\ lastSend' = NoSend
    /\ UNCHANGED <<lastOnlineCount, pendingMessages>>
    /\ UNCHANGED <<nowMs, nextConnId, nextMessageId, allClients>>
    /\ UNCHANGED scrVars

\* case 'presence_subscribe', socketManager.ts:451-455; uids is the list
PresenceSubscribe(c, uids) ==
    /\ FrameOn(c)
    /\ meta' = [meta EXCEPT ![c].subs = @ \cup Range(uids)]
    /\ ws' = Cleared
    /\ recalcs' = <<>>
    /\ lastSend' = NoSend
    /\ UNCHANGED <<users, lastOnlineCount, pendingMessages>>
    /\ UNCHANGED <<nowMs, nextConnId, nextMessageId, allClients>>
    /\ UNCHANGED scrVars

\* case 'presence_unsubscribe', socketManager.ts:456-459
PresenceUnsubscribe(c) ==
    /\ FrameOn(c)
    /\ meta' = [meta EXCEPT ![c].subs = {}]
    /\ ws' = Cleared
    /\ recalcs' = <<>>
    /\ lastSend' = NoSend
    /\ UNCHANGED <<users, lastOnlineCount, pendingMessages>>
    /\ UNCHANGED <<nowMs, nextConnId, nextMessageId, allClients>>
    /\ UNCHANGED scrVars

\* the frames answered with one safeSend on the connection and no other
\* effect: case 'presence_query' (socketManager.ts:460-464, 269-276) and
\* case 'ping' (:482-485)
Answer(c) ==
    /\ FrameOn(c)
    /\ \E b \in IdleLevels : \E w2 \in safeSend(Observe(ClearLog(ws[c]), b)) :
         ws' = Quiet([Cleared EXCEPT ![c] = w2])
    /\ NoPresence
    /\ UNCHANGED <<nowMs, nextConnId, nextMessageId, allClients>>
    /\ UNCHANGED scrVars

\* case 'typing_start' (seen = TRUE, socketManager.ts:465-473) and case
\* 'typing_stop' (seen = FALSE, :474-481)
Typing(c, seen) ==
    /\ FrameOn(c)
    /\ IF meta[c].uid = 0
       THEN /\ ws' = Cleared
            /\ UNCHANGED users
       ELSE /\ LET us1 == getOrCreateUser(users, meta[c].uid, nowMs)
               IN users' = IF seen THEN [us1 EXCEPT ![meta[c].uid].lastSeen = nowMs]
                           ELSE us1
            /\ \E b \in [allClients -> IdleLevels] :
                 \E s2 \in safeSendEach(
                       SortedSeq({x \in allClients : ws[x].readyState = "OPEN"}),
                       Observed(b)) :
                   ws' = Quiet(s2)
    /\ recalcs' = <<>>
    /\ lastSend' = NoSend
    /\ UNCHANGED <<meta, lastOnlineCount, pendingMessages>>
    /\ UNCHANGED <<nowMs, nextConnId, nextMessageId, allClients>>
    /\ UNCHANGED scrVars

\* Variant of aliveAfterPong for a pong handler that leaves ws.isAlive alone.
aliveAfterPongKept(a) == a

\* socketManager.ts:405
aliveAfterPong(a) == TRUE

\* pingTimer, socketManager.ts:350-361, over allClients: a connection that
\* is marked terminated is skipped; one whose isAlive is false is marked
\* and ws.terminate() destroys its socket (the close event comes later);
\* any other gets isAlive = false and a ping.
PingTimer ==
    /\ \A c \in allClients : meta[c].probes < MaxProbes
    /\ meta' = Tup([c \in Slots |->
                      IF c \notin allClients \/ meta[c].isTerminated THEN meta[c]
                      ELSE IF ~meta[c].isAlive
                      THEN [meta[c] EXCEPT !.isTerminated = TRUE,
                                           !.terminates = @ + 1]
                      ELSE [meta[c] EXCEPT !.isAlive = FALSE,
                                           !.probes = @ + 1,
                                           !.answered = FALSE]], NSlots)
    /\ ws' = Tup([c \in Slots |->
                    IF c \in allClients /\ ~meta[c].isTerminated /\ ~meta[c].isAlive
                    THEN [ClearLog(ws[c]) EXCEPT !.readyState = "CLOSED"]
                    ELSE ClearLog(ws[c])], NSlots)
    /\ recalcs' = <<>>
    /\ lastSend' = NoSend
    /\ UNCHANGED <<nowMs, nextConnId, nextMessageId, allClients>>
    /\ UNCHANGED <<users, lastOnlineCount, pendingMessages, frames>>
    /\ UNCHANGED scrVars

\* ws.on('pong'), socketManager.ts:404-411
Pong(c) ==
    /\ FrameOn(c)
    /\ meta' = [meta EXCEPT ![c].isAlive = aliveAfterPong(@),
                            ![c].answered = (meta[c].probes > 0)]
    /\ users' = IF usersHas(users, meta[c].uid)
                THEN [users EXCEPT ![meta[c].uid].lastSeen = nowMs]
                ELSE users
    /\ ws' = Cleared
    /\ recalcs' = <<>>
    /\ lastSend' = NoSend
    /\ UNCHANGED <<lastOnlineCount, pendingMessages>>
    /\ UNCHANGED <<nowMs, nextConnId, nextMessageId, allClients>>
    /\ UNCHANGED scrVars

RECURSIVE hashContent(_)
\* socketManager.ts:62-70 on the char codes of content: hash * 31 + chr at
\* every char.  The contents of the model are short enough for the value to
\* stay below 2^31, where `hash |= 0` changes nothing, and toString(36) is
\* one-to-one, so the number stands for the string returned.
hashContent(content) ==
    IF content = <<>> THEN 0
    ELSE LET hash == hashContent(SubSeq(content, 1, Len(content) - 1))
         IN ((hash * 32) - hash) + content[Len(content)]

\* case 'pending_message', socketManager.ts:486-507; content is the
\* sequence of the char codes of data.content, <<>> when the field is
\* missing or empty.  History fields of an entry: content, and serial, the
\* number of the frame that registered it.
PendingMessage(c, tempId, content) ==
    /\ FrameOn(c)
    /\ LET uid == meta[c].uid
       IN IF uid = 0 \/ tempId = 0 \/ content = <<>>
          THEN UNCHANGED pendingMessages
          ELSE LET userPending == Append(pendingMessages[uid],
                                         [content |-> content,
                                          contentHash |-> hashContent(content),
                                          createdAt |-> nowMs,
                                          serial |-> frames + 1,
                                          tempId |-> tempId])
                   cutoff == nowMs - PENDING_MESSAGE_TTL_MS
               IN pendingMessages' =
                     [pendingMessages EXCEPT ![uid] =
                        SelectSeq(userPending, LAMBDA q : q.createdAt > cutoff)]
    /\ ws' = Cleared
    /\ recalcs' = <<>>
    /\ lastSend' = IF tempId = 0 \/ content = <<>> THEN Dropped ELSE NoSend
    /\ UNCHANGED <<meta, users, lastOnlineCount>>
    /\ UNCHANGED <<nowMs, nextConnId, nextMessageId, allClients>>
    /\ UNCHANGED scrVars

\* Variant of splice for a match that leaves the entry in the array.
spliceNothing(userPending, i) == userPending

\* userPending.splice(matchIndex, 1), socketManager.ts:610
splice(userPending, i) ==
    SubSeq(userPending, 1, i - 1) \o SubSeq(userPending, i + 1, Len(userPending))

\* what a call of matchPendingMessage returned; tempId 0 is null
MatchResult(uid, content, entry) ==
    [content |-> content, path |-> "matchPendingMessage", serial |-> entry.serial,
     tempId |-> entry.tempId, type |-> "none", uid |-> uid]

NoEntry == [serial |-> 0, tempId |-> 0]

\* matchPendingMessage, socketManager.ts:593-615, called by scrapeOnce for
\* every message it is about to broadcast (scraperService.ts:433-440)
MatchPending(uid, content) ==
    /\ LET userPending == pendingMessages[uid]
           contentHash == hashContent(content)
           cutoff == nowMs - PENDING_MESSAGE_TTL_MS
           hits == {i \in DOMAIN userPending :
                      /\ userPending[i].contentHash = contentHash
                      /\ userPending[i].createdAt > cutoff}
       IN IF hits = {}
          THEN /\ UNCHANGED pendingMessages
               /\ lastSend' = MatchResult(uid, content, NoEntry)
          ELSE LET matchIndex == CHOOSE i \in hits : \A j \in hits : i <= j
               IN /\ pendingMessages' =
                       [pendingMessages EXCEPT ![uid] = splice(userPending, matchIndex)]
                  /\ lastSend' = MatchResult(uid, content, userPending[matchIndex])
    /\ ws' = Cleared
    /\ recalcs' = <<>>
    /\ UNCHANGED <<meta, users, lastOnlineCount, frames>>
    /\ UNCHANGED <<nowMs, nextConnId, nextMessageId, allClients>>
    /\ UNCHANGED scrVars

RECURSIVE recalcAll(_, _, _)
\* socketManager.ts:365, over the keys of users
recalcAll(uids, S, t) ==
    IF uids = <<>> THEN S
    ELSE recalcAll(Tail(uids),
                   UNION { recalcAndNotifyPresence(st, Head(uids), t,
                                                   allClients, meta) : st \in S },
                   t)

\* Variant of purgeable that looks at the connection set only.
purgeableNoGrace(u, currentTime) == Cardinality(u.connections) = 0

\* socketManager.ts:380
purgeable(u, currentTime) ==
    /\ Cardinality(u.connections) = 0
    /\ currentTime - u.lastSeen > OFFLINE_GRACE_PERIOD_MS

\* Variant of countChanged for a sweep that sends the count on every run.
countChangedAlways(cnt, last) == TRUE

\* socketManager.ts:368
countChanged(cnt, last) == cnt # last

\* sweepTimer, socketManager.ts:364-389
PresenceSweep ==
    /\ \E b \in [allClients -> IdleLevels] :
         \E st \in recalcAll(SortedSeq({u \in UserIds : users[u].reg}),
                              {[log |-> <<>>, sockets |-> Observed(b),
                                users |-> users]}, nowMs) :
           LET cnt == getOnlineCount(st.users, allClients, st.sockets, meta, nowMs)
               changed == countChanged(cnt, lastOnlineCount)
               to == IF changed
                     THEN {c \in allClients : meta[c].open
                                               /\ st.sockets[c].readyState = "OPEN"}
                     ELSE {}
           IN /\ lastOnlineCount' = IF changed THEN cnt ELSE lastOnlineCount
              /\ lastSend' = [path |-> "sweepTimer",
                              type |-> IF changed THEN "online_count_update"
                                       ELSE "none"]
              /\ \E s2 \in safeSendEach(SortedSeq(to), st.sockets) : ws' = Quiet(s2)
              /\ users' = Tup([u \in UserIds |->
                                 IF st.users[u].reg /\ purgeable(st.users[u], nowMs)
                                 THEN NoUser ELSE st.users[u]], MaxUsers)
              /\ recalcs' = st.log
    /\ allClients' = {c \in allClients : ws[c].readyState = "OPEN"}
    /\ UNCHANGED <<meta, pendingMessages, frames>>
    /\ UNCHANGED <<nowMs, nextConnId, nextMessageId>>
    /\ UNCHANGED scrVars

\* a long time passes between two handlers
LongTick ==
    /\ nowMs + LongStep <= MaxLongClock
    /\ nowMs' = nowMs + LongStep
    /\ ws' = Cleared
    /\ NoPresence
    /\ UNCHANGED <<nextConnId, nextMessageId, allClients, frames>>
    /\ UNCHANGED scrVars

\* connections that stay open and identify themselves, broadcasts and sends
\* to one user; best-effort broadcasts are explored before the first
\* reliable one
SendNext ==
    \/ Register(MaxPresConns)
    \/ \E c \in Slots, uid \in UserIds : Identify(c, uid)
    \/ \E c \in Slots, k \in AckIds : Ack(c, k)
    \/ \E t \in BroadcastTypes : Broadcast(t)
    \/ \E t \in PlainTypes : NoneAllocated /\ Broadcast(t)
    \/ \E u \in UserIds, t \in UserTypes : SendToUser(u, t)

\* the user ids that clients subscribe to
WatchedIds == {1}

PresNext ==
    \/ Register(MaxPresConns)
    \/ \E c \in Slots : TransportClose(c)
    \/ \E c \in Slots : CleanupConnection(c)
    \/ \E c \in Slots, uid \in UserIds : Identify(c, uid)
    \/ \E c \in Slots, id \in UserIds : Join(c, id)
    \/ \E c \in Slots, open \in BOOLEAN : Presence(c, open)
    \/ \E c \in Slots, u \in WatchedIds : PresenceSubscribe(c, <<u>>)
    \/ \E c \in Slots : PresenceUnsubscribe(c)
    \/ \E c \in Slots : Answer(c)
    \/ \E c \in Slots, seen \in BOOLEAN : Typing(c, seen)
    \/ \E c \in Slots : Pong(c)
    \/ PresenceSweep

\* broadcasts at the start to connections of which some die, and the retry
\* ticks that follow
DeadNext ==
    \/ Register(MaxPresConns)
    \/ \E c \in Slots : TransportClose(c)
    \/ \E c \in Slots : CleanupConnection(c)
    \/ \E t \in PayloadTypes : BroadcastAtStart(t)
    \/ RetryTicker
    \/ Tick

\* the connection whose client watches the presence of the other users
Watcher == NSlots

\* connections of which the last watches the presence of the users that
\* the others join as (connection c as user c); a broadcast at the start
\* hands each a reliable message, and they acknowledge, are retried and are
\* destroyed
IsoNext ==
    \/ Register(MaxPresConns)
    \/ \E c \in Slots : TransportClose(c)
    \/ \E c \in Slots : CleanupConnection(c)
    \/ \E c \in Slots \ {Watcher} : meta[c].uid = 0 /\ Join(c, c)
    \/ \E u \in UserIds \ {Watcher} :
          u \notin meta[Watcher].subs /\ PresenceSubscribe(Watcher, <<u>>)
    \/ \E c \in Slots, k \in AckIds : Ack(c, k)
    \/ BroadcastAtStart("new_messages")
    \/ RetryTicker
    \/ Tick

\* data.tempId of the frames where matching is explored
TempIds == {1, 2}

\* "Aa" and "BB", which have the same hash, and "A"
MatchContents == {<<65, 97>>, <<66, 66>>, <<65>>}

\* optimistic messages are registered and matched while time passes
MatchNext ==
    \/ Register(MaxPresConns)
    \/ \E c \in Slots, uid \in UserIds : Identify(c, uid)
    \/ \E c \in Slots, tempId \in TempIds, content \in MatchContents :
          PendingMessage(c, tempId, content)
    \/ \E uid \in UserIds, content \in MatchContents : MatchPending(uid, content)
    \/ Tick

\* the liveness probe on connections that answer or stay silent
ProbeNext ==
    \/ Register(MaxPresConns)
    \/ \E c \in Slots : TransportClose(c)
    \/ \E c \in Slots : CleanupConnection(c)
    \/ \E c \in Slots : Pong(c)
    \/ PingTimer

\* the life of the record of one user over a long time
PurgeNext ==
    \/ Register(MaxPresConns)
    \/ \E c \in Slots : TransportClose(c)
    \/ \E c \in Slots : CleanupConnection(c)
    \/ \E c \in Slots : Join(c, 1)
    \/ \E c \in Slots : Typing(c, TRUE)
    \/ \E c \in Slots : Pong(c)
    \/ PresenceSweep
    \/ LongTick

\* data.tempId and data.content of a pending_message frame: 0 is a missing
\* or empty field
FrameFields == {0, 1}

\* data.content of a pending_message frame: missing or empty, or "A"
FrameContents == {<<>>, <<65>>}

\* control frames, well-formed and malformed, on connections that hold
\* unacknowledged payloads and pending messages
FrameNext ==
    \/ Register(MaxPresConns)
    \/ \E c \in Slots : DroppedFrame(c)
    \/ \E c \in Slots, uid \in {0} \cup WatchedIds : Identify(c, uid)
    \/ \E c \in Slots, id \in {0} \cup WatchedIds : Join(c, id)
    \/ \E c \in Slots, k \in {0} \cup AckIds : Ack(c, k)
    \/ \E c \in Slots, tempId \in FrameFields, content \in FrameContents :
          PendingMessage(c, tempId, content)
    \/ Broadcast("new_messages")

(***************************************************************************)
(* The scraper, scraperService.ts:39-469.  A message is a record            *)
(* [id, timestamp, uid] as normalizeMessage returns it: id is               *)
(* BigInt(bangumi_id); the other columns take part in no decision of the    *)
(* cycle.  The sinceTs of a cycle only shapes the request URL: what         *)
(* upstream answers is any part of its feed.                                *)
(***************************************************************************)
SAFETY_SWEEP_EVERY_TICKS == 5
SAFETY_SWEEP_WINDOW_SEC == 120

\* scraperService.ts:450: state.tick wraps here
TICK_WRAP == 1000000

\* Variant of tickAfter that wraps one tick early.
tickAfterShortWrap(t) == (t + 1) % (TICK_WRAP - 1)

\* scraperService.ts:450
tickAfter(t) == (t + 1) % TICK_WRAP

\* scrapeOnce called without sinceTs (typeof sinceTs !== 'number')
NoSince == -1

\* scraperService.ts:272-273: the since_id of the request, one second
\* before sinceTs or, without it, before the cursor ts
overlapTs(sinceTs, ts) ==
    LET cursorTs == IF sinceTs # NoSince THEN sinceTs ELSE ts
    IN IF cursorTs - 1 > 0 THEN cursorTs - 1 ELSE 0

ExtIds == 1..MaxExtId

\* uid 0 marks upstream's placeholder records; uid 2 is in the global
\* blocklist
Uids == {0, 1, 2}

globalBlocklist == {2}

\* timestamps upstream may send: none, the start cursor, the present, and
\* one beyond the accepted future (now + 2) at start
TsVals == {0, StartNow - 3600, StartNow, StartNow + 3}

Messages == [id : ExtIds, timestamp : TsVals, uid : Uids]

\* blocklistManager.ts:16-18
isBlocked(uid) == uid \in globalBlocklist

\* scraperService.ts:76-81, as "a sorts before b"
byTsIdAsc(a, b) ==
    IF a.timestamp # b.timestamp THEN a.timestamp < b.timestamp
    ELSE a.id < b.id

RECURSIVE SortMessages(_)
\* Array.prototype.sort(byTsIdAsc) on messages with distinct ids
SortMessages(S) ==
    IF S = {} THEN <<>>
    ELSE LET m == CHOOSE x \in S : \A y \in S \ {x} : byTsIdAsc(x, y)
         IN <<m>> \o SortMessages(S \ {m})

\* Variant of isFresh that also takes the record the cursor stands on.
isFreshOrEqual(m, ts, id) ==
    IF m.timestamp > ts THEN TRUE
    ELSE IF m.timestamp < ts THEN FALSE
    ELSE m.id >= id

\* scraperService.ts:83-87, against the cursor (ts, id)
isFresh(m, ts, id) ==
    IF m.timestamp > ts THEN TRUE
    ELSE IF m.timestamp < ts THEN FALSE
    ELSE m.id > id

\* Variant of safeSortedOf that drops no record for a timestamp beyond
\* scanLimit.
safeSortedOfNoLimit(raw, now) ==
    LET scanLimit == now + 2
        clamped == {IF m.uid = 0 /\ m.timestamp > scanLimit
                    THEN [m EXCEPT !.timestamp = now] ELSE m : m \in raw}
    IN SortMessages({m \in clamped : m.timestamp > 0})

\* Variant of safeSortedOf that rewrites the records of every author.
safeSortedOfClampAll(raw, now) ==
    LET scanLimit == now + 2
        clamped == {IF m.timestamp > scanLimit
                    THEN [m EXCEPT !.timestamp = now] ELSE m : m \in raw}
    IN SortMessages({m \in clamped : m.timestamp > 0 /\ m.timestamp <= scanLimit})

\* scraperService.ts:284-294: clamp the placeholders from the future, drop
\* what is out of range, sort
safeSortedOf(raw, now) ==
    LET scanLimit == now + 2
        clamped == {IF m.uid = 0 /\ m.timestamp > scanLimit
                    THEN [m EXCEPT !.timestamp = now] ELSE m : m \in raw}
    IN SortMessages({m \in clamped : m.timestamp > 0 /\ m.timestamp <= scanLimit})

\* Variant of freshOf whose sweep branch keeps the blocked authors.
freshOfSweepUnblocked(safeSorted, immobileCursor, ts, id) ==
    IF immobileCursor
    THEN safeSorted
    ELSE SelectSeq(safeSorted, LAMBDA m : ~isBlocked(m.uid) /\ isFresh(m, ts, id))

\* Variant of freshOf that applies the cursor in neither mode.
freshOfNoCursor(safeSorted, immobileCursor, ts, id) ==
    SelectSeq(safeSorted, LAMBDA m : ~isBlocked(m.uid))

\* scraperService.ts:296-298
freshOf(safeSorted, immobileCursor, ts, id) ==
    IF immobileCursor
    THEN SelectSeq(safeSorted, LAMBDA m : ~isBlocked(m.uid))
    ELSE SelectSeq(safeSorted, LAMBDA m : ~isBlocked(m.uid) /\ isFresh(m, ts, id))

\* the bangumi_id column of the rows; a row is kept as its bangumi_id
StoredIds(rows) == {rows[i] : i \in DOMAIN rows}

\* scraperService.ts:245-268: one INSERT ... ON CONFLICT (bangumi_id) DO
\* NOTHING RETURNING bangumi_id per message; the rows the transaction adds
insertMessagesBulk(rows, msgs) ==
    SelectSeq(msgs, LAMBDA m : m.id \notin StoredIds(rows))

MaxOf(S) == IF S = {} THEN 0 ELSE CHOOSE x \in S : \A y \in S : y <= x

\* scraperService.ts:407-416: the cursor after the advance step of a normal
\* cycle, read at second now2
advanceCursor(fresh, now2, ts, id) ==
    LET adv == SelectSeq(fresh, LAMBDA m : ~(m.uid = 0 /\ m.timestamp > now2))
    IN IF Len(adv) > 0
       THEN LET maxTs == adv[Len(adv)].timestamp
            IN [advanced |-> TRUE, lastTs |-> maxTs,
                lastIdAtTs |-> MaxOf({fresh[i].id : i \in
                                       {j \in DOMAIN fresh : fresh[j].timestamp = maxTs}})]
       ELSE [advanced |-> FALSE, lastTs |-> ts, lastIdAtTs |-> id]

\* Variant of cursorAfter that advances the cursor in the sweep as well.
cursorAfterMobile(immobileCursor, fresh, now2, ts, id) ==
    advanceCursor(fresh, now2, ts, id)

\* scraperService.ts:407: the advance step is skipped when immobileCursor
\* is set
cursorAfter(immobileCursor, fresh, now2, ts, id) ==
    IF immobileCursor
    THEN [advanced |-> FALSE, lastTs |-> ts, lastIdAtTs |-> id]
    ELSE advanceCursor(fresh, now2, ts, id)

\* the places where a cycle can fail: the fetch (network error, 5xx after
\* the retries, or a response that is not ok), res.json(), pool.connect(),
\* BEGIN, an INSERT of insertMessagesBulk, the enrichment queries (lines
\* 326-337), an INSERT into notifications, COMMIT
FailPoints ==
    {"none", "fetch", "parse", "connect", "begin", "insert", "enrich", "notify",
     "commit"}

Ids(msgs) == {msgs[i].id : i \in DOMAIN msgs}

\* scraperService.ts:271-446.  raw is the array upstream answered with, fail
\* the place where the cycle fails, rollbackOk whether ROLLBACK succeeds,
\* now2 the clock read at line 408.  The result holds the new cursor and
\* rows, the ids broadcast as new_messages (bcast), the messages handed to
\* insertMessagesBulk (handed), whether the failure place was reached
\* (failed), whether an exception left scrapeOnce (thrown), and the returned
\* flag (advanced).
scrapeOnce(immobileCursor, raw, fail, rollbackOk, now2) ==
    LET same == [advanced |-> FALSE, bcast |-> {}, failed |-> FALSE, handed |-> {},
                 lastIdAtTs |-> lastIdAtTs, lastTs |-> lastTs, store |-> store,
                 thrown |-> FALSE]
        fresh == freshOf(safeSortedOf(raw, nowTs), immobileCursor, lastTs, lastIdAtTs)
        added == insertMessagesBulk(store, fresh)
        \* MessageService.enrichMessages (unnamed/part_001) drops blocked uids
        enriched == SelectSeq(added, LAMBDA m : ~isBlocked(m.uid))
        cur == cursorAfter(immobileCursor, fresh, now2, lastTs, lastIdAtTs)
        out(e) == IF rollbackOk THEN [same EXCEPT !.failed = TRUE, !.bcast = Ids(e),
                                                  !.handed = Range(fresh)]
                  ELSE [same EXCEPT !.failed = TRUE, !.thrown = TRUE,
                                    !.handed = Range(fresh)]
    IN IF fail \in {"fetch", "parse"} THEN [same EXCEPT !.failed = TRUE]
       ELSE IF raw = {} \/ Len(fresh) = 0 THEN same
       ELSE IF fail = "connect" THEN [same EXCEPT !.failed = TRUE, !.thrown = TRUE]
       ELSE IF fail = "begin"
       THEN [out(<<>>) EXCEPT !.handed = {}]
       ELSE IF fail = "insert" THEN out(<<>>)
       ELSE IF fail = "enrich" /\ Len(added) > 0 THEN out(<<>>)
       ELSE IF fail = "notify" /\ Len(enriched) > 0 THEN out(enriched)
       ELSE IF fail = "commit"
       THEN [out(enriched) EXCEPT !.lastTs = cur.lastTs,
                                  !.lastIdAtTs = cur.lastIdAtTs,
                                  !.advanced = cur.advanced /\ rollbackOk]
       ELSE [same EXCEPT !.lastTs = cur.lastTs, !.lastIdAtTs = cur.lastIdAtTs,
                         !.advanced = cur.advanced, !.bcast = Ids(enriched),
                         !.handed = Range(fresh),
                         !.store = store \o [i \in DOMAIN added |-> added[i].id]]

NoCycle == [advanced |-> FALSE, handed |-> {}, mode |-> "none", query |-> 0]

\* scraperService.ts:51: the default of fetchWithRetry's parameter retries
FETCH_RETRIES == 4

\* no call of fetchWithRetry has been made in this run of the loop
NoFetch == [state |-> "none", retries |-> FETCH_RETRIES, last |-> "none",
            timeouts |-> <<>>]

NoSort == [input |-> <<>>, output |-> <<>>, sorted |-> FALSE]

MaxNow == StartNow + MaxElapsed

(***************************************************************************)
(* Actions of the scraper.  feed is upstream's message list; wsManager is   *)
(* the socket manager, whose registry is empty in this specification, so    *)
(* wsManager.broadcast reaches no connection and is recorded in fanned.     *)
(***************************************************************************)
\* the process after start-up: no connection (socketManager.ts:84-89), the
\* cursor one hour back (scraperService.ts:39-43), nothing stored
Init ==
    /\ nowMs = 0
    /\ nextConnId = 1
    /\ nextMessageId = 1
    /\ allClients = {}
    /\ ws = Tup([c \in Slots |-> NewSocket], NSlots)
    /\ meta = Tup([c \in Slots |-> NewMeta], NSlots)
    /\ users = Tup([u \in UserIds |-> NoUser], MaxUsers)
    /\ lastOnlineCount = -1
    /\ pendingMessages = Tup([u \in UserIds |-> <<>>], MaxUsers)
    /\ frames = 0
    /\ recalcs = <<>>
    /\ lastSend = NoSend
    /\ lastTs = StartNow - 3600
    /\ lastIdAtTs = 0
    /\ tick = 0
    /\ pc = "idle"
    /\ running = 1
    /\ timers = 0
    /\ nowTs = StartNow
    /\ store = <<>>
    /\ feed = {}
    /\ fanned = [i \in ExtIds |-> 0]
    /\ failures = 0
    /\ cyc = NoCycle
    /\ sorting = NoSort
    /\ fetching = NoFetch
    /\ completed = 0

\* the effect of one scrapeOnce on the cursor, the rows and the history
Apply(r, mode, sinceTs, now2) ==
    /\ lastTs' = r.lastTs
    /\ lastIdAtTs' = r.lastIdAtTs
    /\ store' = r.store
    /\ fanned' = [i \in ExtIds |-> IF i \in r.bcast THEN fanned[i] + 1 ELSE fanned[i]]
    /\ failures' = IF r.failed THEN failures + 1 ELSE failures
    /\ cyc' = [advanced |-> r.advanced, handed |-> r.handed, mode |-> mode,
               query |-> overlapTs(sinceTs, lastTs)]
    /\ nowTs' = now2
    /\ UNCHANGED sorting

\* a user posts on the upstream site
Post(m) ==
    /\ \A x \in feed : x.id # m.id
    /\ feed' = feed \cup {m}
    /\ cyc' = NoCycle
    /\ UNCHANGED <<lastTs, lastIdAtTs, tick, pc, running, timers, nowTs, store, fanned,
                   failures, sorting, fetching, completed>>
    /\ UNCHANGED wsVars

\* Variant of timersAfterFire for a repeating timer (setInterval): the
\* timer stays armed when it fires.
timersAfterFireRepeating(n) == n

\* scraperService.ts:466: setTimeout arms a one-shot timer
timersAfterFire(n) == n - 1

\* scraperService.ts:463-467: scrapeMessages has resolved or thrown; run
\* logs the exception and its finally clause arms the timer of the next run
Resolved ==
    /\ pc' = "timer"
    /\ running' = running - 1
    /\ timers' = timers + 1

\* a timer of run fires (scraperService.ts:466): run calls scrapeMessages
TimerFires ==
    /\ timers > 0
    /\ running < MaxRunning
    /\ timers' = timersAfterFire(timers)
    /\ running' = running + 1
    /\ pc' = "idle"
    /\ cyc' = NoCycle
    /\ fetching' = NoFetch
    /\ UNCHANGED <<lastTs, lastIdAtTs, tick, nowTs, store, feed, fanned, failures,
                   sorting, completed>>
    /\ UNCHANGED wsVars

\* scrapeMessages, scraperService.ts:448-451: the normal cycle and the tick
NormalPass(fails) ==
    /\ pc = "idle"
    /\ tick < MaxTick \/ tick >= TICK_WRAP - SAFETY_SWEEP_EVERY_TICKS
    /\ \E raw \in SUBSET feed, fail \in fails, rollbackOk \in BOOLEAN,
          now2 \in {nowTs, Min(nowTs + 1, MaxNow)} :
          LET r == scrapeOnce(FALSE, raw, fail, rollbackOk, now2)
          IN /\ (fail # "none") = r.failed
             /\ r.failed => failures < MaxFailures
             /\ ~rollbackOk => r.thrown
             /\ Apply(r, "normal", NoSince, now2)
             /\ tick' = IF r.thrown THEN tick ELSE tickAfter(tick)
             /\ completed' = IF r.thrown THEN completed ELSE completed + 1
             /\ IF ~r.thrown /\ tick' % SAFETY_SWEEP_EVERY_TICKS = 0
                THEN pc' = "sweep" /\ UNCHANGED <<running, timers>>
                ELSE Resolved
    /\ UNCHANGED feed
    /\ UNCHANGED wsVars

\* scrapeMessages, scraperService.ts:451-458: the safety sweep, whose
\* exceptions are swallowed
SweepPass(fails) ==
    /\ pc = "sweep"
    /\ \E raw \in SUBSET feed, fail \in fails, rollbackOk \in BOOLEAN,
          now2 \in {nowTs, Min(nowTs + 1, MaxNow)} :
          LET r == scrapeOnce(TRUE, raw, fail, rollbackOk, now2)
          IN /\ (fail # "none") = r.failed
             /\ r.failed => failures < MaxFailures
             /\ ~rollbackOk => r.thrown
             /\ Apply(r, "sweep", nowTs - SAFETY_SWEEP_WINDOW_SEC, now2)
    /\ Resolved
    /\ completed' = 0
    /\ UNCHANGED <<tick, feed>>
    /\ UNCHANGED wsVars

\* one cycle of the normal pass, the upstream fetch included
NormalCycle ==
    /\ fetching.state = "none"
    /\ NormalPass(FailPoints)
    /\ UNCHANGED fetching

\* one cycle of the safety sweep, the upstream fetch included
SweepCycle ==
    /\ fetching.state = "none"
    /\ SweepPass(FailPoints)
    /\ UNCHANGED fetching

(***************************************************************************)
(* The upstream fetch attempt by attempt, scraperService.ts:49-62.  Every   *)
(* await of fetchWithRetry is a point where other handlers run.            *)
(***************************************************************************)
\* scraperService.ts:49
backoffMs(attempt) == 5000 * 2 ^ attempt

\* what one fetch can end in: an exception (network error, or the abort of
\* AbortSignal.timeout), a response with status >= 500, another response
\* that is not ok, a response that is ok
FetchOutcomes == {"threw", "status5xx", "notOk", "ok"}

\* Variant of fetchWithRetry whose recursive call passes retries unchanged.
fetchWithRetryNoCountdown(f, o) ==
    LET g == [f EXCEPT !.timeouts = Append(@, backoffMs(4 - f.retries + 1)),
                       !.last = o]
    IN IF o \in {"ok", "notOk"} THEN [g EXCEPT !.state = "returned"]
       ELSE IF f.retries <= 0 THEN [g EXCEPT !.state = "thrown"]
       ELSE [g EXCEPT !.state = "retrying", !.retries = f.retries]

\* scraperService.ts:51-62: one call of fetchWithRetry whose fetch ends in
\* o.  The response is returned (56), or the exception of line 54 or 55 is
\* rethrown when retries <= 0 (58), or after the sleep of line 59 the
\* function calls itself with retries - 1 (60).
fetchWithRetry(f, o) ==
    LET g == [f EXCEPT !.timeouts = Append(@, backoffMs(4 - f.retries + 1)),
                       !.last = o]
    IN IF o \in {"ok", "notOk"} THEN [g EXCEPT !.state = "returned"]
       ELSE IF f.retries <= 0 THEN [g EXCEPT !.state = "thrown"]
       ELSE [g EXCEPT !.state = "retrying", !.retries = f.retries - 1]

\* scrapeOnce calls fetchWithRetry (scraperService.ts:279), or
\* fetchWithRetry calls itself (60), and the fetch of line 54 ends in o
FetchAttempt(o) ==
    /\ pc \in {"idle", "sweep"}
    /\ pc = "idle" => tick < MaxTick
    /\ fetching.state \in {"none", "done", "retrying"}
    /\ fetching' = fetchWithRetry(IF fetching.state = "retrying" THEN fetching
                                  ELSE NoFetch, o)
    /\ cyc' = NoCycle
    /\ UNCHANGED <<lastTs, lastIdAtTs, tick, pc, running, timers, nowTs, store, feed,
                   fanned, failures, sorting, completed>>
    /\ UNCHANGED wsVars

\* where scrapeOnce can fail once fetchWithRetry has returned or thrown:
\* lines 280 and 299-310 end the cycle unless the response is ok
FailsAfter(f) ==
    IF f.state = "returned" /\ f.last = "ok" THEN FailPoints \ {"fetch"}
    ELSE {"fetch"}

\* the rest of the normal cycle, scraperService.ts:280-446 and 449-451
FetchedNormal ==
    /\ fetching.state \in {"returned", "thrown"}
    /\ NormalPass(FailsAfter(fetching))
    /\ fetching' = [fetching EXCEPT !.state = "done"]

\* the rest of the safety sweep, scraperService.ts:280-446 and 452-457
FetchedSweep ==
    /\ fetching.state \in {"returned", "thrown"}
    /\ SweepPass(FailsAfter(fetching))
    /\ fetching' = [fetching EXCEPT !.state = "done"]

\* The loop runs TICK_WRAP - SAFETY_SWEEP_EVERY_TICKS times while upstream
\* answers every fetch with an empty array (scraperService.ts:282): the
\* normal cycles and the sweeps return early, and only state.tick moves.
Elapse ==
    /\ pc = "idle"
    /\ tick = 0
    /\ completed = 0
    /\ fetching.state = "none"
    /\ tick' = TICK_WRAP - SAFETY_SWEEP_EVERY_TICKS
    /\ cyc' = NoCycle
    /\ UNCHANGED <<lastTs, lastIdAtTs, pc, running, timers, nowTs, store, feed, fanned,
                   failures, sorting, fetching, completed>>
    /\ UNCHANGED wsVars

\* a second passes between two cycles (config.scraper.intervalMs)
ClockTick ==
    /\ nowTs < MaxNow
    /\ nowTs' = nowTs + 1
    /\ cyc' = NoCycle
    /\ UNCHANGED <<lastTs, lastIdAtTs, tick, pc, running, timers, store, feed, fanned,
                   failures, sorting, fetching, completed>>
    /\ UNCHANGED wsVars

(***************************************************************************)
(* The comparator on its own, scraperService.ts:76-81, on messages whose   *)
(* bangumi_id is still the string of digits that normalizeMessage made     *)
(* (line 64), written as the sequence of its digits.  A BigInt of at most  *)
(* 16 digits is held as the pair <<v \div 10^8, v % 10^8>>.                 *)
(***************************************************************************)
RECURSIVE DigitsValue(_)
DigitsValue(d) ==
    IF d = <<>> THEN 0
    ELSE 10 * DigitsValue(SubSeq(d, 1, Len(d) - 1)) + d[Len(d)]

\* Variant of BigIntOf that reads the digits as an IEEE double, the way
\* Number(m.bangumi_id) does: from 2^53 = 9007199254740992 on, an odd
\* integer is not representable; 2^53 + 1 rounds to 2^53.
NumberOf(d) ==
    LET n == Len(d)
        hi == IF n <= 8 THEN 0 ELSE DigitsValue(SubSeq(d, 1, n - 8))
        lo == IF n <= 8 THEN DigitsValue(d) ELSE DigitsValue(SubSeq(d, n - 7, n))
    IN IF hi > 90071992 \/ (hi = 90071992 /\ lo >= 54740992)
       THEN <<hi, lo - (lo % 2)>>
       ELSE <<hi, lo>>

\* BigInt(m.bangumi_id), scraperService.ts:78-79
BigIntOf(d) ==
    LET n == Len(d)
    IN IF n <= 8 THEN <<0, DigitsValue(d)>>
       ELSE <<DigitsValue(SubSeq(d, 1, n - 8)), DigitsValue(SubSeq(d, n - 7, n))>>

\* idA < idB on two BigInt values
BigLess(x, y) == x[1] < y[1] \/ (x[1] = y[1] /\ x[2] < y[2])

\* scraperService.ts:76-81, the number that the comparator returns
byTsIdAscOnStrings(a, b) ==
    IF a.timestamp # b.timestamp THEN a.timestamp - b.timestamp
    ELSE LET idA == BigIntOf(a.bangumi_id)
             idB == BigIntOf(b.bangumi_id)
         IN IF BigLess(idA, idB) THEN -1 ELSE IF BigLess(idB, idA) THEN 1 ELSE 0

RECURSIVE insertSorted(_, _)
\* m goes before the first element that the comparator puts after it
insertSorted(arr, m) ==
    IF arr = <<>> THEN <<m>>
    ELSE IF byTsIdAscOnStrings(Head(arr), m) <= 0
         THEN <<Head(arr)>> \o insertSorted(Tail(arr), m)
         ELSE <<m>> \o arr

RECURSIVE sortByTsIdAsc(_)
\* Array.prototype.sort(byTsIdAsc), scraperService.ts:294: a stable sort
sortByTsIdAsc(arr) ==
    IF arr = <<>> THEN <<>>
    ELSE insertSorted(sortByTsIdAsc(SubSeq(arr, 1, Len(arr) - 1)), arr[Len(arr)])

\* 2^53 and 2^53 + 1, the first integers that a double cannot tell apart
TwoTo53 == <<9, 0, 0, 7, 1, 9, 9, 2, 5, 4, 7, 4, 0, 9, 9, 2>>

TwoTo53Plus1 == <<9, 0, 0, 7, 1, 9, 9, 2, 5, 4, 7, 4, 0, 9, 9, 3>>

SortIds == {<<9>>, <<1, 0>>, <<1, 1>>, <<9, 9>>, TwoTo53, TwoTo53Plus1}

SortTimestamps == {3, 5, 7}

SortRecords == [bangumi_id : SortIds, timestamp : SortTimestamps]

\* upstream's answer holds one more record
ReceiveRecord(m) ==
    /\ ~sorting.sorted
    /\ Len(sorting.input) < MaxBatch
    /\ sorting' = [sorting EXCEPT !.input = Append(@, m)]
    /\ UNCHANGED <<lastTs, lastIdAtTs, tick, pc, running, timers, nowTs, store, feed,
                   fanned, failures, cyc, fetching, completed>>
    /\ UNCHANGED wsVars

\* the array is sorted, scraperService.ts:294
SortBatch ==
    /\ ~sorting.sorted
    /\ sorting' = [sorting EXCEPT !.output = sortByTsIdAsc(sorting.input),
                                  !.sorted = TRUE]
    /\ UNCHANGED <<lastTs, lastIdAtTs, tick, pc, running, timers, nowTs, store, feed,
                   fanned, failures, cyc, fetching, completed>>
    /\ UNCHANGED wsVars

SortNext ==
    \/ \E m \in SortRecords : ReceiveRecord(m)
    \/ SortBatch

ScrNext ==
    \/ \E m \in Messages : Post(m)
    \/ TimerFires
    \/ NormalCycle
    \/ SweepCycle
    \/ ClockTick

\* the records posted where the fetch and the cadence are explored: those of a user who is
\* neither the placeholder uid 0 nor blocked
FetchPosts == {m \in Messages : m.uid = 1}

\* the scraper over the wrap of state.tick; the clock is read at line 408
\* only and advances there
CadenceNext ==
    \/ \E m \in FetchPosts : Post(m)
    \/ TimerFires
    \/ NormalCycle
    \/ SweepCycle
    \/ Elapse

\* the clock is read at line 408 only and advances there
FetchNext ==
    \/ \E m \in FetchPosts : Post(m)
    \/ TimerFires
    \/ \E o \in FetchOutcomes : FetchAttempt(o)
    \/ FetchedNormal
    \/ FetchedSweep

\* the delivery engine alone: the scraper is idle
SpecWS == Init /\ [][WsNext]_vars

\* the scraper alone: no client is connected
SpecScr == Init /\ [][ScrNext]_vars

SpecPres == Init /\ [][PresNext]_vars

SpecPurge == Init /\ [][PurgeNext]_vars

SpecSend == Init /\ [][SendNext]_vars

\* the comparator and the sort alone
SpecSort == Init /\ [][SortNext]_vars

SpecFrame == Init /\ [][FrameNext]_vars

\* The retry timer (setInterval, socketManager.ts:287) keeps firing and the
\* clock keeps moving; ticks that find the transports calm keep occurring.
SpecDrain == Init /\ [][DrainNext]_vars /\ WF_vars(CalmTick) /\ WF_vars(Tick)

SpecDead == Init /\ [][DeadNext]_vars

SpecIso == Init /\ [][IsoNext]_vars

SpecMatch == Init /\ [][MatchNext]_vars

SpecProbe == Init /\ [][ProbeNext]_vars

SpecCadence == Init /\ [][CadenceNext]_vars

\* the scraper alone, its upstream fetch taken attempt by attempt
SpecFetch == Init /\ [][FetchNext]_vars

(***************************************************************************)
(* Properties of the delivery engine.                                      *)
(***************************************************************************)
\* the ids of the frames the last handler transmitted on a socket
SentIds(w) == {w.sent[i].id : i \in DOMAIN w.sent}

\* C1: once the client's ack for a delivery id has been processed, the
\* connection holds no unacked entry for that id, and no later handler (retry
\* tick, queue drain, broadcast) transmits the payload of that id again.
C1_AckCancelsRetry ==
    \A c \in Conns : \A k \in ws[c].acked :
        /\ ~MapHas(ws[c].unackedMessages, k)
        /\ k \notin SentIds(ws[c])

\* C1 witness: a queue drain ran on an open connection, met the queued item
\* of an acked id and consumed it.
C1_Witness ==
    \E c \in Conns : \E k \in ws[c].acked : \E i \in DOMAIN ws[c].drains :
        /\ ws[c].readyState = "OPEN"
        /\ k \in Range(ws[c].drains[i].before)
        /\ k \notin Range(ws[c].drains[i].after)

\* the entries of an open connection whose age at the time of the tick is
\* over the retry window
OverAge(w) ==
    {k \in MapKeys(w.unackedMessages) :
        nowMs - MapGet(w.unackedMessages, k).firstSentAt > MAX_RETRY_WINDOW_MS}

\* an id removed by an earlier retry tick is not transmitted by this step
ExpiredStaySilent ==
    \A c \in Conns : \A k \in ws[c].expired : k \notin SentIds(ws'[c])

IdFor(c) ==
    nextMessageId + Cardinality({d \in allClients : d < c /\ ws[d].readyState = "OPEN"})

\* the checks of one handler on one socket follow the two watermarks, each
\* starts from the flag the previous one left, and the last one leaves the
\* flag of the socket
HysteresisOfChecks(w) ==
    \A i \in DOMAIN w.checks :
        LET r == w.checks[i]
        IN /\ r.obs > BUFFER_HIGH_WATERMARK => r.now
           /\ (r.was /\ r.obs >= BUFFER_LOW_WATERMARK) => r.now
           /\ (r.was /\ r.obs < BUFFER_LOW_WATERMARK) => ~r.now
           /\ (~r.was /\ r.obs <= BUFFER_HIGH_WATERMARK) => ~r.now
           /\ i > 1 => r.was = w.checks[i - 1].now
           /\ i = Len(w.checks) => r.now = w.backpressure

\* the flag changes only in a check, and the first check of a handler starts
\* from the flag the socket had before the handler
FlagOnlyMovedByChecks(c) ==
    IF ws'[c].checks = <<>>
    THEN ws'[c].backpressure = ws[c].backpressure
    ELSE ws'[c].checks[1].was = ws[c].backpressure

\* a reliable broadcast whose check on c found the flag set and the buffer at
\* or above the low watermark, or found the buffer above the high watermark,
\* appended the new id to c's pending queue and did not transmit it
HeldSendIsQueued(c) ==
    LET w == ws'[c]
        k == IdFor(c)
        r == w.checks[1]
    IN (nextMessageId' # nextMessageId /\ c \in allClients /\ ws[c].readyState = "OPEN")
       => /\ w.checks # <<>>
          /\ ((r.was /\ r.obs >= BUFFER_LOW_WATERMARK) \/ r.obs > BUFFER_HIGH_WATERMARK)
             => /\ w.backpressure
                /\ w.pendingQueue # <<>>
                /\ w.pendingQueue[Len(w.pendingQueue)] = k
                /\ k \notin SentIds(w)
                /\ ~MapGet(w.unackedMessages, k).wasSent

\* C8: backpressure hysteresis.  A check that observes more than 4 MiB sets
\* the flag; a set flag stays set through every check that observes 1 MiB or
\* more (the two watermarks included) and is cleared only by a check that
\* observes less than 1 MiB; nothing but a check moves the flag.  While the
\* flag is set no reliable payload is transmitted, and a new reliable send is
\* appended to the pending queue.
C8_BackpressureHysteresis ==
    [][\A c \in Conns :
          /\ HysteresisOfChecks(ws'[c])
          /\ FlagOnlyMovedByChecks(c)
          /\ \A i \in DOMAIN ws'[c].sent :
                ws'[c].sent[i].id # 0 => ~ws'[c].sent[i].bp
          /\ HeldSendIsQueued(c)]_wsVars

\* C8 witness: the first check of the last handler found the flag set with
\* the buffer exactly at the low watermark, and the newest delivery id waits
\* in the pending queue without having been transmitted.
C8_Witness ==
    \E c \in allClients :
        LET w == ws[c]
        IN /\ w.readyState = "OPEN"
           /\ w.checks # <<>>
           /\ w.checks[1].was
           /\ w.checks[1].obs = BUFFER_LOW_WATERMARK
           /\ w.backpressure
           /\ w.pendingQueue # <<>>
           /\ w.pendingQueue[Len(w.pendingQueue)] = nextMessageId - 1
           /\ nextMessageId - 1 \notin Range(w.firstTx)

IsSuffix(a, b) ==
    Len(a) <= Len(b) /\ a = SubSeq(b, Len(b) - Len(a) + 1, Len(b))

RECURSIVE IsSubseq(_, _)
\* s is t with some elements deleted, the order kept
IsSubseq(s, t) ==
    IF s = <<>> THEN TRUE
    ELSE IF t = <<>> THEN FALSE
    ELSE IF Head(s) = Head(t) THEN IsSubseq(Tail(s), Tail(t))
    ELSE IsSubseq(s, Tail(t))

DrainIsFifo(d) ==
    LET consumed == SubSeq(d.before, 1, Len(d.before) - Len(d.after))
    IN /\ IsSuffix(d.after, d.before)
       /\ IsSubseq(d.tx, consumed)
       /\ d.nchk = Len(consumed)
       /\ d.after # <<>> => (d.bp \/ d.failed)
       /\ d.failed => (d.after # <<>> /\ Head(d.after) \notin Range(d.tx))

\* C9: FIFO self-throttling drain.  A check that clears the flag runs a drain;
\* every drain consumes a prefix of the pending queue and leaves the rest in
\* its original order, transmits items of that prefix in queue order, checks
\* the watermark once after every consumed item, and stops before the queue
\* is empty only when the flag is set again or a send failed, the failed item
\* staying at the head.
C9_FifoDrain ==
    \A c \in Conns :
        /\ \A i \in DOMAIN ws[c].drains : DrainIsFifo(ws[c].drains[i])
        /\ Cardinality({i \in DOMAIN ws[c].checks :
                          ws[c].checks[i].was /\ ~ws[c].checks[i].now})
              <= Len(ws[c].drains)

\* C9 witness: a drain of a queue of two items transmitted the first one,
\* found the flag set again by the check that followed, and stopped with the
\* second item still queued.
C9_Witness ==
    \E c \in Conns : \E i \in DOMAIN ws[c].drains :
        LET d == ws[c].drains[i]
        IN /\ Len(d.before) >= 2
           /\ d.tx = <<d.before[1]>>
           /\ d.bp
           /\ ~d.failed
           /\ d.after = Tail(d.before)

\* C10 as stated: on every connection the first transmissions of reliable
\* payloads happen in increasing delivery-id order.
C10_FirstTxIncreasing ==
    \A c \in Conns : \A i, j \in DOMAIN ws[c].firstTx :
        i < j => ws[c].firstTx[i] < ws[c].firstTx[j]

(***************************************************************************)
(* Properties of the scraper.                                              *)
(***************************************************************************)
\* C3 as stated: each external id is in at most one stored row, and at most
\* one new_messages fan-out carried it.
C3_IdempotentIngestion ==
    \A i \in ExtIds :
        /\ Cardinality({k \in DOMAIN store : store[k] = i}) <= 1
        /\ fanned[i] <= 1

\* C4 as stated: a normal cycle that fails leaves the cursor (lastTs,
\* lastIdAtTs) as it was before the cycle.
C4_FailureKeepsCursor ==
    [][(pc = "idle" /\ failures' > failures)
         => (lastTs' = lastTs /\ lastIdAtTs' = lastIdAtTs)]_vars

\* C5 as stated: a cycle that fails commits no row and fans out no record.
C5_FailedCycleAcceptsNothing ==
    [][failures' > failures => (store' = store /\ fanned' = fanned)]_vars

CursorLt(t1, i1, t2, i2) == t1 < t2 \/ (t1 = t2 /\ i1 < i2)

\* C6: no step moves the cursor (lastTs, lastIdAtTs) backwards in the
\* lexicographic order, and a cycle that reports advanced = true moves it
\* strictly forward.
C6_CursorForward ==
    [][/\ ~CursorLt(lastTs', lastIdAtTs', lastTs, lastIdAtTs)
       /\ cyc'.advanced => CursorLt(lastTs, lastIdAtTs, lastTs', lastIdAtTs')]_vars

\* C6 witness: a normal cycle after the second tick reported advanced = true
\* in a run in which a cycle had failed.
C6_Witness ==
    /\ cyc.mode = "normal"
    /\ cyc.advanced
    /\ tick >= 2
    /\ failures > 0

\* C7: every record a normal cycle hands to the persistence step is strictly
\* newer, in the (timestamp, external id) order, than the cursor held when
\* the cycle started.
C7_NormalModeAcceptsOnlyNewer ==
    [][cyc'.mode = "normal"
         => \A m \in cyc'.handed :
               CursorLt(lastTs, lastIdAtTs, m.timestamp, m.id)]_vars

\* C7 witness: a normal cycle handed a record to the persistence step while
\* upstream also held a record that is already stored and was not handed
\* over again.
C7_Witness ==
    /\ cyc.mode = "normal"
    /\ cyc.handed # {}
    /\ \E m \in feed :
          /\ m.id \in StoredIds(store)
          /\ m.id \notin {h.id : h \in cyc.handed}
          /\ ~CursorLt(lastTs, lastIdAtTs, m.timestamp, m.id)

(***************************************************************************)
(* Properties of the presence state.                                       *)
(***************************************************************************)
\* no connection is between the end of its transport and its close event
NoClosePending ==
    \A c \in Slots : ws[c].readyState = "CLOSED" => meta[c].cleanups > 0

\* C11 as stated: once every event is handled, a registered user is active
\* exactly when some connection whose ws.meta.uid is that user has an open
\* transport.
C11_PresenceInvariant ==
    NoClosePending =>
        \A u \in UserIds :
            users[u].reg =>
                (users[u].active <=>
                    \E c \in Slots : meta[c].uid = u /\ ws[c].readyState = "OPEN")

\* the flag that a recompute of user u derives at the end of the step
DerivedAfter(u) ==
    /\ users'[u].reg
    /\ \E c \in users'[u].connections : ws'[c].readyState = "OPEN"

\* the connections subscribed to u when a handler recomputes u
Subscribed(u) == {c \in allClients : u \in meta[c].subs}

\* the subscribed connections whose open flag is set when a handler
\* recomputes u (a presence frame sets the flag before it recomputes)
SubscribedAndOpen(u) == {c \in Subscribed(u) : meta'[c].open}

\* Each run r of recalcAndNotifyPresence in a step started from the stored
\* flag of the user, stored the derived flag, and called safeSend on exactly
\* the connections of a set when the two differ and on none when they are
\* equal: the set is SubscribedAndOpen(r.uid) if openOnly, Subscribed(r.uid)
\* otherwise.
RecomputesNotify(openOnly) ==
    \A i \in DOMAIN recalcs' :
        LET r == recalcs'[i]
        IN /\ r.was = users[r.uid].active
           /\ r.now = DerivedAfter(r.uid)
           /\ users'[r.uid].reg => users'[r.uid].active = r.now
           /\ r.to = IF r.was = r.now THEN {}
                     ELSE IF openOnly THEN SubscribedAndOpen(r.uid)
                     ELSE Subscribed(r.uid)

\* C12 as stated: a recompute of u notifies every connection subscribed to u
\* exactly when the derived flag differs from the stored one.
C12_Original == [][RecomputesNotify(FALSE)]_vars

\* C12: a recompute of u calls safeSend with a presence_update on every
\* registered connection that is subscribed to u and has its open flag set,
\* exactly when the derived flag differs from the stored one, and on no
\* connection when they are equal.
C12_NotifyOnTransition == [][RecomputesNotify(TRUE)]_vars

C12_Witness ==
    \E i \in DOMAIN recalcs :
        /\ recalcs[i].was # recalcs[i].now
        /\ recalcs[i].to # {}
        /\ \E c \in Subscribed(recalcs[i].uid) : c \notin recalcs[i].to

\* a user with an open connection in its connection set is active, whatever
\* the state of its other connections
OpenConnectionMeansActive ==
    \A u \in UserIds :
        (users'[u].reg /\ \E c \in users'[u].connections : ws'[c].readyState = "OPEN")
            => users'[u].active

\* a recompute of a user none of whose connections is open stores FALSE
ClosedMeansInactiveAfterRecompute ==
    \A i \in DOMAIN recalcs' :
        LET u == recalcs'[i].uid
        IN (\A c \in users'[u].connections : ws'[c].readyState # "OPEN")
               => (~recalcs'[i].now /\ ~users'[u].active)

\* the step removes the record of user u
Evicted(u) == users[u].reg /\ ~users'[u].reg

ClaimedOnline ==
    {<<"uid", u>> : u \in {x \in UserIds :
         /\ users[x].reg
         /\ \/ users[x].active
            \/ nowMs - users[x].lastSeen < OFFLINE_GRACE_PERIOD_MS}}
    \cup {<<"anon", c>> : c \in {x \in allClients :
              ws[x].readyState = "OPEN" /\ meta[x].uid = 0}}

\* C14 as stated: once every event is handled, getOnlineCount() is the
\* number of identities of ClaimedOnline.
C14_OnlineCount ==
    NoClosePending =>
        getOnlineCount(users, allClients, ws, meta, nowMs) = Cardinality(ClaimedOnline)

(***************************************************************************)
(* Properties of the send paths.                                           *)
(***************************************************************************)
\* the five reliable types
ReliableTypes ==
    {"new_messages", "reaction_add", "reaction_remove", "message_delete",
     "message_edit"}

\* the delivery ids that the step records on connection c
NewEntries(c) == MapKeys(ws'[c].unackedMessages) \ MapKeys(ws[c].unackedMessages)

\* the step transmits a frame without ackId on connection c
PlainSent(c) == \E i \in DOMAIN ws'[c].sent : ws'[c].sent[i].id = 0

\* the step stamps and records its payload, once for each connection of the
\* set T and for no other connection, and sends no frame without ackId
StampedFor(T) ==
    /\ \A c \in Slots : Cardinality(NewEntries(c)) = IF c \in T THEN 1 ELSE 0
    /\ nextMessageId' = nextMessageId + Cardinality(T)
    /\ \A c \in Slots : ~PlainSent(c)

\* the step allocates no delivery id and records nothing
Unstamped ==
    /\ \A c \in Slots : NewEntries(c) = {}
    /\ nextMessageId' = nextMessageId

OpenClients == {c \in allClients : ws[c].readyState = "OPEN"}

\* C15 as stated: on both send paths the payload is stamped with an ackId
\* and recorded exactly when its type is one of the five reliable types.
C15_Original ==
    [][/\ lastSend'.path = "broadcast" =>
            IF lastSend'.type \in ReliableTypes THEN StampedFor(OpenClients)
            ELSE Unstamped
       /\ lastSend'.path = "sendToUser" =>
            IF lastSend'.type \in ReliableTypes
            THEN \E u \in UserIds : StampedFor({c \in OpenClients : meta[c].uid = u})
            ELSE Unstamped]_vars

\* C15: broadcast stamps its payload with an ackId and records it, once per
\* open connection, exactly when the type is one of the five reliable
\* types, and otherwise allocates and records nothing; sendToUser stamps and
\* records its payload for every open connection of the user whatever the
\* type.
C15_Classification ==
    [][/\ lastSend'.path = "broadcast" =>
            IF lastSend'.type \in ReliableTypes THEN StampedFor(OpenClients)
            ELSE Unstamped
       /\ lastSend'.path = "sendToUser" =>
            \E u \in UserIds : StampedFor({c \in OpenClients : meta[c].uid = u})]_vars

\* a notification has just been recorded on connection 1 under a delivery id
C15_Witness ==
    /\ lastSend = [path |-> "sendToUser", type |-> "notification"]
    /\ ws[1].unackedMessages # EmptyMap
    /\ nextMessageId > 1

\* the keys of the unacked map of connection c, in the order of insertion
KeysOf(c) == MapKeySeq(ws[c].unackedMessages)

\* the ids on each connection are distinct and increasing in the order of
\* allocation, all below the counter, and no id is on two connections
IdsUnique ==
    /\ \A c \in Slots : \A i, j \in DOMAIN KeysOf(c) :
            i < j => KeysOf(c)[i] < KeysOf(c)[j]
    /\ \A c \in Slots : \A k \in Range(KeysOf(c)) : k < nextMessageId
    /\ \A c, d \in Slots : c # d => Range(KeysOf(c)) \cap Range(KeysOf(d)) = {}

\* C16: the counter never goes back, every id that a step records is one
\* that was never allocated before the step, the ids on one connection
\* increase in allocation order, and an id is a key of at most one
\* connection's unacked map.
C16_IdsUniqueIncreasing ==
    [][/\ nextMessageId' >= nextMessageId
       /\ \A c \in Slots : \A k \in NewEntries(c) :
             k >= nextMessageId /\ k < nextMessageId'
       /\ IdsUnique']_vars

\* one broadcast has left an unacknowledged entry on each of two connections
C16_Witness ==
    /\ ws[1].unackedMessages # EmptyMap
    /\ ws[2].unackedMessages # EmptyMap
    /\ nextMessageId = 3

\* the number of transmissions of id k in the log of connection record w
\* that were not made by a run of drainPendingQueue: those of sendReliable
\* and of the entry loop of the retry tick
TxOutsideDrain(w, k) ==
    Cardinality({i \in DOMAIN w.sent : w.sent[i].id = k})
    - Cardinality({p \in (DOMAIN w.drains) \X (1..Len(w.sent)) :
                     /\ p[2] \in DOMAIN w.drains[p[1]].tx
                     /\ w.drains[p[1]].tx[p[2]] = k})

RetriesOf(w, k) == MapGet(w.unackedMessages, k).retries

Destroyed(c) == meta[c].cleanups >= 1

\* C18: once the close or error handler of a connection has run, the
\* connection has no unacked entry and no queued payload, is in no user's
\* connection set and is not in the registry.
C18_DestroyClears ==
    \A c \in Slots :
        Destroyed(c) =>
            /\ ws[c].unackedMessages = EmptyMap
            /\ ws[c].pendingQueue = <<>>
            /\ c \notin allClients
            /\ \A u \in UserIds : c \notin users[u].connections

\* connection c handles a frame that is not JSON, not an object or of an
\* unknown type, or a frame without the field that its type requires
MalformedFrame(c) ==
    \/ DroppedFrame(c)
    \/ Identify(c, 0)
    \/ Join(c, 0)
    \/ Ack(c, 0)
    \/ \E tempId \in FrameFields, content \in FrameContents :
          (tempId = 0 \/ content = <<>>) /\ PendingMessage(c, tempId, content)

\* what the program holds for one connection, without the history fields
MetaOf(w, m) ==
    [backpressure |-> w.backpressure, open |-> m.open, pendingQueue |-> w.pendingQueue,
     readyState |-> w.readyState, subs |-> m.subs, uid |-> m.uid,
     unackedMessages |-> w.unackedMessages]

\* C19: a malformed control frame on connection c leaves c registered and
\* open, and leaves the state of every connection, the user map, the
\* pending-message map, the registry and the id counter unchanged.
C19_MalformedIgnored ==
    [][\A c \in Slots :
         MalformedFrame(c) =>
             /\ c \in allClients'
             /\ ws'[c].readyState = "OPEN"
             /\ \A d \in Slots : MetaOf(ws'[d], meta'[d]) = MetaOf(ws[d], meta[d])
             /\ users' = users
             /\ pendingMessages' = pendingMessages
             /\ allClients' = allClients
             /\ nextMessageId' = nextMessageId]_vars

\* a malformed frame has been handled while a connection with a user id, an
\* unacknowledged payload and a pending message was registered next to
\* another connection
C19_Witness ==
    /\ lastSend = Dropped
    /\ \E c \in allClients :
          /\ meta[c].uid # 0
          /\ users[meta[c].uid].reg
          /\ ws[c].unackedMessages # EmptyMap
          /\ pendingMessages[meta[c].uid] # <<>>
          /\ \E d \in allClients : d # c /\ ws[d].unackedMessages # EmptyMap

\* C20: a sweep cycle, whatever it fetches, inserts and fans out and
\* whether it succeeds or fails, leaves (lastTs, lastIdAtTs) as it found
\* them.
C20_SweepKeepsCursor ==
    [][(pc = "sweep" /\ cyc'.mode = "sweep") =>
           (lastTs' = lastTs /\ lastIdAtTs' = lastIdAtTs)]_vars

\* a sweep has handed to the insert a record that lies beyond the cursor
C20_Witness ==
    /\ cyc.mode = "sweep"
    /\ \E m \in cyc.handed : m.uid # 0 /\ isFresh(m, lastTs, lastIdAtTs)
    /\ store # <<>>

\* one run of the loop is in flight or one timer is armed, never both and
\* never two of either
OneRunOrOneTimer ==
    /\ running \in {0, 1}
    /\ timers \in {0, 1}
    /\ running + timers = 1
    /\ (running = 1) = (pc \in {"idle", "sweep"})

\* C21: at most one cycle is in flight at any time, a timer is armed only
\* while no cycle is in flight, and every step that ends a cycle, whether
\* the cycle succeeded, returned early or threw, arms the timer of the next.
C21_SequentialLoop ==
    [][/\ OneRunOrOneTimer'
       /\ timers' > timers => running = 1 /\ running' = 0
       /\ running' < running => timers' = timers + 1]_vars

\* a normal cycle has thrown and the timer of the next run is armed
C21_Witness ==
    /\ pc = "timer"
    /\ timers = 1
    /\ running = 0
    /\ cyc.mode = "normal"
    /\ tick = 0
    /\ failures = 1

\* the record of upstream's feed from which the handed record h was made
UpstreamOf(h) == CHOOSE o \in feed : o.id = h.id

\* what a cycle that reads the clock as now hands to the insert for the
\* upstream record o, when the records of author 0 later than limit are
\* rewritten
Rewritten(o, now, limit) ==
    IF o.uid = 0 /\ o.timestamp > limit THEN [o EXCEPT !.timestamp = now] ELSE o

\* every record that the cycle hands on is its upstream record rewritten
\* above limit; a normal cycle filters and advances on the rewritten value
ClampedAbove(slack) ==
    cyc'.mode # "none" =>
        /\ \A h \in cyc'.handed : h = Rewritten(UpstreamOf(h), nowTs, nowTs + slack)
        /\ cyc'.mode = "normal" =>
              /\ \A h \in cyc'.handed : isFresh(h, lastTs, lastIdAtTs)
              /\ cyc'.advanced => \E h \in cyc'.handed : h.timestamp = lastTs'

IntegerLess(x, y) ==
    \/ Len(x) < Len(y)
    \/ /\ Len(x) = Len(y)
       /\ \E k \in DOMAIN x :
             /\ x[k] < y[k]
             /\ \A i \in 1..(k - 1) : x[i] = y[i]

\* the lexicographic order on (timestamp, integer id)
LexLess(a, b) ==
    \/ a.timestamp < b.timestamp
    \/ a.timestamp = b.timestamp /\ IntegerLess(a.bangumi_id, b.bangumi_id)

\* the number of places of array arr that hold record m
Occurrences(arr, m) == Cardinality({i \in DOMAIN arr : arr[i] = m})

\* the example of the ordering rule: timestamps [5,5,7,3], ids [10,11,9,99]
ExampleBatch ==
    <<[bangumi_id |-> <<1, 0>>, timestamp |-> 5], [bangumi_id |-> <<1, 1>>, timestamp |-> 5],
      [bangumi_id |-> <<9>>, timestamp |-> 7], [bangumi_id |-> <<9, 9>>, timestamp |-> 3]>>

ExampleSorted ==
    <<[bangumi_id |-> <<9, 9>>, timestamp |-> 3], [bangumi_id |-> <<1, 0>>, timestamp |-> 5],
      [bangumi_id |-> <<1, 1>>, timestamp |-> 5], [bangumi_id |-> <<9>>, timestamp |-> 7]>>

\* C23: the sorted array holds the records of the input, ascending in the
\* lexicographic order on (timestamp, integer id); the comparator is
\* negative exactly when its first argument is below the second in that
\* order and zero exactly when the two have the same timestamp and id,
\* also for ids from 2^53 on; the example sorts to (3,99),(5,10),(5,11),(7,9).
C23_SortedByTsId ==
    sorting.sorted =>
    /\ Len(sorting.output) = Len(sorting.input)
    /\ \A m \in SortRecords :
          Occurrences(sorting.output, m) = Occurrences(sorting.input, m)
    /\ \A i, j \in DOMAIN sorting.output :
          i < j => ~LexLess(sorting.output[j], sorting.output[i])
    /\ \A i, j \in DOMAIN sorting.input :
          LET a == sorting.input[i]
              b == sorting.input[j]
          IN /\ (byTsIdAscOnStrings(a, b) < 0) = LexLess(a, b)
             /\ (byTsIdAscOnStrings(a, b) > 0) = LexLess(b, a)
             /\ (byTsIdAscOnStrings(a, b) = 0) = (a = b)
    /\ sorting.input = ExampleBatch => sorting.output = ExampleSorted

\* an array that holds 2^53 + 1 before 2^53 under one timestamp, after a
\* record with a later timestamp and a small id, has been put in order
C23_Witness ==
    /\ sorting.sorted
    /\ Len(sorting.input) = 3
    /\ sorting.input[1] = [bangumi_id |-> <<9>>, timestamp |-> 7]
    /\ sorting.input[2] = [bangumi_id |-> TwoTo53Plus1, timestamp |-> 5]
    /\ sorting.input[3] = [bangumi_id |-> TwoTo53, timestamp |-> 5]
    /\ sorting.output = <<sorting.input[3], sorting.input[2], sorting.input[1]>>

\* the record with external id k that the last cycle handed to the insert
HandedAs(k) == CHOOSE h \in cyc'.handed : h.id = k

\* the rows that a cycle adds to the store are in the order of
\* (timestamp, id) of the records it handed to the insert
InsertsInOrder ==
    [][\A i, j \in (Len(store) + 1)..Len(store') :
         i < j => byTsIdAsc(HandedAs(store'[i]), HandedAs(store'[j]))]_vars

\* the step is a broadcast of a best-effort payload
BestEffortStep == lastSend'.path = "broadcast" /\ lastSend'.type = "typing_start"

\* the places of the log of connection c that hold a transmission of a
\* payload without ackId made by the step
PlainTx(c) == {i \in DOMAIN ws'[c].sent : ws'[c].sent[i].id = 0}

\* what holds of a best-effort payload on every step; always says whether
\* a payload is transmitted whenever the transport is open and the flag is
\* clear after the check
SentNowOrDropped(always) ==
    \A c \in Slots :
        /\ ~InQueue(ws'[c], 0)
        /\ ~MapHas(ws'[c].unackedMessages, 0)
        /\ MapKeys(ws'[c].unackedMessages) \subseteq MapKeys(ws[c].unackedMessages)
              \/ ~BestEffortStep
        /\ Cardinality(PlainTx(c)) <= 1
        /\ ~(BestEffortStep /\ c \in OpenClients) => PlainTx(c) = {}
        /\ ws'[c].backpressure => PlainTx(c) = {}
        /\ \A i \in PlainTx(c) :
              /\ i = Len(ws'[c].sent)
              /\ ~ws'[c].sent[i].bp
              /\ ws'[c].sent[i].rs = "OPEN"
        /\ (always /\ BestEffortStep /\ c \in OpenClients /\ ~ws'[c].backpressure) =>
              PlainTx(c) # {}

\* C24 as stated: a best-effort payload is transmitted whenever the
\* transport is open and the connection is not backpressured.
C24_Original == [][SentNowOrDropped(TRUE)]_vars

\* C24: a best-effort payload is transmitted at most once, by the step that
\* sends it, on an open transport whose backpressure flag is clear after
\* the check, or it is dropped; it is never in the pending queue or the
\* unacked map and no later step transmits it.
C24_SentNowOrDropped == [][SentNowOrDropped(FALSE)]_vars

\* a best-effort payload has been dropped on an open, backpressured
\* connection whose queue holds a reliable payload
C24_Witness ==
    /\ lastSend.path = "broadcast"
    /\ lastSend.type = "typing_start"
    /\ \E c \in allClients :
          /\ ws[c].readyState = "OPEN"
          /\ ws[c].backpressure
          /\ ws[c].pendingQueue # <<>>
          /\ \A i \in DOMAIN ws[c].sent : ws[c].sent[i].id # 0

\* the ids that run d of drainPendingQueue took out of the queue
Consumed(d) == Range(d.before) \ Range(d.after)

\* C25: a drain of the pending queue transmits every queued payload that it
\* takes out of the queue and that is a retry (its entry is in the unacked
\* map with a retry counted).
C25_QueuedRetryResent ==
    \A c \in Slots : \A i \in DOMAIN ws[c].drains :
        \A k \in Consumed(ws[c].drains[i]) :
            (MapHas(ws[c].unackedMessages, k) /\ RetriesOf(ws[c], k) >= 1) =>
                k \in Range(ws[c].drains[i].tx)

\* the records handed on by the cycle of this step that are not
\* placeholders dated after the clock that the advance step reads
Settled == {h \in cyc'.handed : ~(h.uid = 0 /\ h.timestamp > nowTs')}

\* the normal cycle of this step has committed
NormalCommit == cyc'.mode = "normal" /\ failures' = failures /\ cyc'.handed # {}

\* C26: after a normal cycle that commits with at least one accepted record
\* that is not a placeholder, lastTs is the greatest timestamp among those
\* records and lastIdAtTs the greatest id among those of them that carry
\* that timestamp.
C26_AdvanceTarget ==
    [][(NormalCommit /\ Settled # {}) =>
          /\ lastTs' = MaxOf({h.timestamp : h \in Settled})
          /\ lastIdAtTs' = MaxOf({h.id : h \in {x \in Settled : x.timestamp = lastTs'}})]_vars

\* C27: after a normal cycle, lastTs is not greater than the clock second
\* that the cycle read when it received the batch.
C27_CursorNotFromFuture ==
    [][cyc'.mode = "normal" => lastTs' <= nowTs]_vars

\* C28: a cycle issues at most one new_messages broadcast, and the
\* broadcast carries exactly the external ids that the cycle has newly
\* inserted into the store; a cycle that inserted none issues none.
C28_FanOutNewlyInserted ==
    [][cyc'.mode # "none" =>
          \A i \in ExtIds :
              /\ fanned'[i] <= fanned[i] + 1
              /\ (fanned'[i] > fanned[i]) =
                    (i \in StoredIds(store') \ StoredIds(store))]_vars

(***************************************************************************)
(* Properties of the upstream fetch.                                       *)
(***************************************************************************)
\* the cycle of this step ended at the fetch: fetchWithRetry threw, or
\* returned a response that is not ok
AbandonedAtFetch ==
    /\ fetching.state \in {"returned", "thrown"}
    /\ fetching.last # "ok"
    /\ fetching'.state = "done"

\* C29: one call of fetchWithRetry from scrapeOnce makes at most 5 fetch
\* attempts; an attempt after the first follows only an attempt that threw
\* or answered with a 5xx status; and when the last attempt has failed, or
\* the response is not a 2xx one, the cycle ends with the store, the cursor
\* and every connection's state as they were, and with no broadcast.
C29_BoundedFetchRetry ==
    [][/\ Len(fetching'.timeouts) <= FETCH_RETRIES + 1
       /\ (Len(fetching'.timeouts) = Len(fetching.timeouts) + 1
              /\ Len(fetching.timeouts) > 0)
             => fetching.last \in {"threw", "status5xx"}
       /\ (fetching.state = "thrown")
             => (Len(fetching.timeouts) = FETCH_RETRIES + 1
                   /\ fetching.last \in {"threw", "status5xx"})
       /\ AbandonedAtFetch
             => (/\ store' = store
                 /\ lastTs' = lastTs
                 /\ lastIdAtTs' = lastIdAtTs
                 /\ fanned' = fanned
                 /\ ~cyc'.advanced
                 /\ UNCHANGED wsVars)]_vars

\* four attempts failed, the fifth threw, and the cycle has ended with a
\* record waiting upstream that was not stored
C29_Witness ==
    /\ fetching.state = "done"
    /\ fetching.last = "threw"
    /\ Len(fetching.timeouts) = FETCH_RETRIES + 1
    /\ cyc.mode = "normal"
    /\ feed # {}
    /\ store = <<>>

\* C30: all fetch attempts of one cycle are made with the same timeout.
C30_FixedTimeout ==
    \A i, j \in DOMAIN fetching.timeouts :
        fetching.timeouts[i] = fetching.timeouts[j]

(***************************************************************************)
(* Properties of the sweep cadence.                                        *)
(***************************************************************************)
\* C31: a sweep becomes due only at the end of a normal cycle, and exactly
\* when that cycle is the 5th to complete since the last sweep (since the
\* start for the first); a sweep cycle runs only when due; its request asks
\* for the 120 seconds before the present (less the one-second overlap of
\* every request) instead of the cursor; and this holds on both sides of
\* the wrap of the tick counter at 1,000,000.
C31_SweepCadence ==
    [][/\ (pc' = "sweep" /\ pc # "sweep")
             => (pc = "idle" /\ cyc'.mode = "normal"
                   /\ completed' = SAFETY_SWEEP_EVERY_TICKS)
       /\ (cyc'.mode = "normal" /\ completed' = SAFETY_SWEEP_EVERY_TICKS)
             => pc' = "sweep"
       /\ cyc'.mode = "normal" => cyc'.query = lastTs - 1
       /\ cyc'.mode = "sweep"
             => (/\ pc = "sweep"
                 /\ completed = SAFETY_SWEEP_EVERY_TICKS
                 /\ cyc'.query = nowTs - SAFETY_SWEEP_WINDOW_SEC - 1
                 /\ tick' = tick)]_vars

\* the sweep that is due when the tick counter has wrapped to 0 has run
C31_Witness ==
    /\ tick = 0
    /\ cyc.mode = "sweep"
    /\ completed = 0
    /\ pc = "timer"

(***************************************************************************)
(* Properties of the filters of a cycle.                                   *)
(***************************************************************************)
\* C32: in a normal cycle and in a sweep cycle alike, no record of a
\* blocked author is handed to the insert, none is stored or broadcast, and
\* when the cursor moves it moves to the timestamp and id of records that
\* were handed on, none of which is of a blocked author.
C32_BlockedFiltered ==
    [][cyc'.mode # "none" =>
          /\ \A h \in cyc'.handed : ~isBlocked(h.uid)
          /\ \A m \in feed :
                isBlocked(m.uid) =>
                    (m.id \notin StoredIds(store') /\ fanned'[m.id] = 0)
          /\ lastTs' # lastTs =>
                \E h \in cyc'.handed : ~isBlocked(h.uid) /\ h.timestamp = lastTs'
          /\ lastIdAtTs' # lastIdAtTs =>
                \E h \in cyc'.handed : ~isBlocked(h.uid) /\ h.id = lastIdAtTs']_vars

\* a sweep cycle has stored and broadcast a record while upstream holds a
\* record of a blocked author that is in range
C32_Witness ==
    /\ cyc.mode = "sweep"
    /\ cyc.handed # {}
    /\ \E m \in feed :
          /\ isBlocked(m.uid)
          /\ m.timestamp = StartNow
          /\ \E h \in cyc.handed : h.id # m.id /\ fanned[h.id] > 0

\* the timestamp of upstream's record m after the clamp of a cycle that
\* reads the clock as now
ClampedTs(m, now) == IF m.uid = 0 /\ m.timestamp > now + 2 THEN now ELSE m.timestamp

\* C40: in a normal cycle and in a sweep cycle alike, a record whose
\* timestamp after the clamp is not positive or is more than 2 seconds
\* past the clock read on receipt is not handed to the insert, is neither
\* stored nor broadcast by the cycle, and the cursor does not move to it.
C40_OutOfRangeDiscarded ==
    [][cyc'.mode # "none" =>
          /\ \A h \in cyc'.handed : h.timestamp > 0 /\ h.timestamp <= nowTs + 2
          /\ \A m \in feed :
                (ClampedTs(m, nowTs) <= 0 \/ ClampedTs(m, nowTs) > nowTs + 2) =>
                    /\ m.id \notin {h.id : h \in cyc'.handed}
                    /\ m.id \in StoredIds(store') => m.id \in StoredIds(store)
                    /\ fanned'[m.id] = fanned[m.id]
          /\ lastTs' # lastTs => (lastTs' > 0 /\ lastTs' <= nowTs + 2)]_vars

\* a sweep cycle has handed a record on and stored it while upstream holds
\* a record that is 3 seconds ahead of the clock, which is not stored
C40_Witness ==
    /\ cyc.mode = "sweep"
    /\ cyc.handed # {}
    /\ nowTs = StartNow
    /\ \E m \in feed :
          /\ m.uid = 1
          /\ m.timestamp = StartNow + 3
          /\ m.id \notin StoredIds(store)
          /\ \E h \in cyc.handed : h.id # m.id /\ h.id \in StoredIds(store)

(***************************************************************************)
(* Properties of the presence sweep and the liveness probe.                *)
(***************************************************************************)
\* C33: the value that the presence sweep compares against is written by
\* the sweep alone and is the count that the last sweep computed (-1 before
\* the first); a sweep runs the online_count_update broadcast exactly when
\* the count it computes differs from that value; the counts that join and
\* presence frames are answered with leave the value as it is.
C33_SweepComparesSweeps ==
    [][/\ lastOnlineCount' # lastOnlineCount => lastSend'.path = "sweepTimer"
       /\ lastSend'.path = "sweepTimer" =>
            /\ lastOnlineCount' =
                 getOnlineCount(users', allClients', ws', meta', nowMs')
            /\ (lastSend'.type = "online_count_update")
                 = (lastOnlineCount' # lastOnlineCount)
            /\ lastOnlineCount = -1 => lastSend'.type = "online_count_update"]_vars

\* a sweep has found the count of the sweep before it, one joined user, and
\* has sent nothing
C33_Witness ==
    /\ lastSend = [path |-> "sweepTimer", type |-> "none"]
    /\ lastOnlineCount = 1
    /\ \E c \in allClients :
          /\ meta[c].uid # 0
          /\ meta[c].open
          /\ c \in users[meta[c].uid].connections

(***************************************************************************)
(* Liveness of the drain.                                                  *)
(***************************************************************************)
\* connection c is open and holds back payloads
HeldBack(c) ==
    /\ c \in allClients
    /\ ws[c].readyState = "OPEN"
    /\ (ws[c].backpressure \/ Len(ws[c].pendingQueue) > 0)

ProbeStep ==
    \E c \in Slots : \/ meta'[c].probes # meta[c].probes
                     \/ meta'[c].isTerminated # meta[c].isTerminated

\* C35: a tick of the probe terminates exactly the registered connections
\* that were pinged by the tick before and from which no pong event has come
\* since; it does so once, and a terminated connection is never pinged
\* again; a connection from which a pong comes after every ping is pinged
\* again and not terminated.
C35_LivenessProbe ==
    [][\A c \in Slots :
          /\ meta'[c].terminates <= 1
          /\ (meta'[c].isTerminated /\ ~meta[c].isTerminated)
                => (/\ meta[c].probes > 0
                    /\ ~meta[c].answered
                    /\ meta'[c].terminates = 1
                    /\ ws'[c].readyState # "OPEN")
          /\ (ProbeStep /\ c \in allClients /\ ~meta[c].isTerminated
                /\ meta[c].probes > 0 /\ ~meta[c].answered)
                => meta'[c].isTerminated
          /\ (ProbeStep /\ c \in allClients /\ ~meta[c].isTerminated
                /\ (meta[c].probes = 0 \/ meta[c].answered))
                => (~meta'[c].isTerminated /\ meta'[c].probes = meta[c].probes + 1)
          /\ meta[c].isTerminated
                => (meta'[c].isTerminated /\ meta'[c].probes = meta[c].probes
                     /\ meta'[c].terminates = meta[c].terminates)]_vars

\* one connection was terminated at the tick after its first ping, another
\* has answered three pings and is open
C35_Witness ==
    \E c, d \in allClients :
        /\ meta[c].isTerminated
        /\ meta[c].probes = 1
        /\ ~meta[d].isTerminated
        /\ meta[d].probes = MaxProbes
        /\ meta[d].answered
        /\ ws[d].readyState = "OPEN"

(***************************************************************************)
(* Matching of optimistic messages.                                        *)
(***************************************************************************)
\* the registrations held in the pending map
Serials(pm) == UNION {{pm[u][i].serial : i \in DOMAIN pm[u]} : u \in UserIds}

\* C36: a call of matchPendingMessage that returns a tempId returns that
\* of an entry registered under the same user id with the same content
\* hash and less than 30 s ago, and removes that entry and nothing else; a
\* call that returns null leaves the pending map as it was; a registration
\* enters the map only with the frame that makes it, so that none yields
\* its tempId twice.
C36_MatchConsumes ==
    [][/\ lastSend'.path = "matchPendingMessage" =>
            IF lastSend'.tempId = 0
            THEN pendingMessages' = pendingMessages
            ELSE LET uid == lastSend'.uid
                     old == pendingMessages[uid]
                 IN /\ \E i \in DOMAIN old :
                          /\ old[i].serial = lastSend'.serial
                          /\ old[i].tempId = lastSend'.tempId
                          /\ old[i].contentHash = hashContent(lastSend'.content)
                          /\ nowMs - old[i].createdAt < PENDING_MESSAGE_TTL_MS
                          /\ pendingMessages'[uid] =
                               SelectSeq(old, LAMBDA q : q.serial # old[i].serial)
                    /\ \A u \in UserIds \ {uid} :
                          pendingMessages'[u] = pendingMessages[u]
       /\ \A x \in Serials(pendingMessages') \ Serials(pendingMessages) :
             x = frames' /\ frames' = frames + 1]_vars

\* a call with the content "BB" has consumed the entry registered with
\* "Aa", and the entry of the other tempId is still pending
C36_Witness ==
    /\ lastSend.path = "matchPendingMessage"
    /\ lastSend.tempId = 1
    /\ lastSend.content = <<66, 66>>
    /\ \E u \in UserIds :
          /\ Len(pendingMessages[u]) = 1
          /\ pendingMessages[u][1].tempId = 2

(***************************************************************************)
(* Isolation of the connections.                                           *)
(***************************************************************************)
\* what a connection keeps for reliable delivery (ws.meta.unackedMessages,
\* pendingQueue and backpressure, socketManager.ts:397-399)
Private(w) ==
    [backpressure |-> w.backpressure, pendingQueue |-> w.pendingQueue,
     unackedMessages |-> w.unackedMessages]

\* the retry tick at currentTime finds nothing to do on a connection
Quiescent(w, currentTime) ==
    \/ w.readyState # "OPEN"
    \/ /\ ~w.backpressure
       /\ w.pendingQueue = <<>>
       /\ \A k \in MapKeys(w.unackedMessages) :
             LET entry == MapGet(w.unackedMessages, k)
             IN /\ currentTime - entry.firstSentAt <= MAX_RETRY_WINDOW_MS
                /\ currentTime < entry.nextRetry

\* an ack frame on c changes no other connection, and one that carries an
\* id that c does not hold removes nothing anywhere
AckIsolated(c) ==
    \A k \in AckIds :
       Ack(c, k) =>
          /\ \A d \in Slots \ {c} : Private(ws'[d]) = Private(ws[d])
          /\ ~MapHas(ws[c].unackedMessages, k) =>
                \A d \in Slots : ws'[d].unackedMessages = ws[d].unackedMessages

\* a retry tick in which an entry of c expires (only the tick adds to the
\* history field expired) leaves alone the connections
\* on which it finds nothing to do, and what it does to any connection is
\* what it would do to that connection alone
ExpiryIsolated(c) ==
    (ws'[c].expired \ ws[c].expired # {}) =>
       \A d \in Slots \ {c} :
          /\ Quiescent(ws[d], nowMs) => Private(ws'[d]) = Private(ws[d])
          /\ d \in allClients =>
                \E b \in Levels :
                   \E x \in retryConn(Observe(ClearLog(ws[d]), b), nowMs) :
                      Private(ws'[d]) = Private(x)

\* cleanupConnection has run on c
DestroyStep(c) == meta'[c].cleanups = meta[c].cleanups + 1

\* the connections that the presence notification of the last handler was
\* sent to
Notified == UNION {recalcs'[i].to : i \in DOMAIN recalcs'}

C38_NothingOnDeadConnection ==
    [][\A c \in Slots :
          /\ \A i \in DOMAIN ws'[c].sent : ws'[c].sent[i].rs = "OPEN"
          /\ (ws[c].readyState # "OPEN" /\ ws'[c].readyState # "OPEN"
                /\ ~DestroyStep(c)) =>
                /\ ws'[c].sent = <<>>
                /\ Private(ws'[c]) = Private(ws[c])]_vars

\* a retry tick has just retransmitted on one connection (only the tick
\* transmits without a caller's type) while another, whose transport is
\* closed, still holds an entry that is due and was not retried
C38_Witness ==
    \E c \in Slots, d \in Slots :
       /\ c # d
       /\ lastSend = NoSend
       /\ ws[d].sent # <<>>
       /\ c \in allClients
       /\ ws[c].readyState = "CLOSED"
       /\ \E k \in MapKeys(ws[c].unackedMessages) :
             LET entry == MapGet(ws[c].unackedMessages, k)
             IN nowMs >= entry.nextRetry /\ entry.retries = 0

(***************************************************************************)
(* Membership of the connection sets.                                      *)
(***************************************************************************)
\* the users whose connection set holds connection c
MemberOf(c) == {u \in UserIds : users[u].reg /\ c \in users[u].connections}

\* C39: a connection is in the connection set of at most one user, which
\* is the user that its ws.meta.uid names, and once its close event is
\* handled a closed connection is in no connection set.
C39_SingleMembership ==
    \A c \in Slots :
        /\ Cardinality(MemberOf(c)) <= 1
        /\ \A u \in MemberOf(c) : meta[c].uid = u
        /\ (ws[c].readyState = "CLOSED" /\ Destroyed(c)) => MemberOf(c) = {}

====
